---- MODULE Spec2Model ----
(***************************************************************************)
(* Resilience primitives of ai-agent-error-patterns as state machines:     *)
(* the in-memory circuit breaker (agents.circuit-breaker), the batch       *)
(* processor (agents.partial-success), the escalation gate                 *)
(* (agents.human-escalation and its store-backed variant) and the          *)
(* fallback chain (agents.graceful-degradation).                           *)
(*                                                                         *)
(* Every component has its own next-state relation and specification; the  *)
(* variables of the other components stay unchanged under it.              *)
(***************************************************************************)
EXTENDS Integers, Sequences, FiniteSets, TLC

(***************************************************************************)
(* Bounds of the model.                                                    *)
(***************************************************************************)
MaxTime == 4          \* the clock runs over 1..MaxTime
MaxCalls == 2         \* payload.calls ranges over 0..MaxCalls
MaxFailures == 7      \* cap on the consecutive-failure counter
MaxCooldown == 2      \* explicit payload.cooldownMs ranges over 1..MaxCooldown
MaxItems == 3         \* payload.items has at most MaxItems entries
MaxInvocations == 4   \* invocations of agents.human-escalation in one history
MaxPromptLen == 21    \* payload.prompt has at most MaxPromptLen characters
MaxConcTime == 2      \* the clock of overlapping circuit breaker runs is 1..MaxConcTime
MaxProdPromptLen == 2 \* payload.prompt of the production fallback chain has at most MaxProdPromptLen characters
MaxBatch == 2         \* payload.items of the idempotent batch processor has at most MaxBatch entries
MaxRunnerCalls == 6     \* calls in the payload the test runners pass to the breaker
MaxGateTime == 2      \* the gate's clock runs over 1..MaxGateTime before and after the token lifetime

(***************************************************************************)
(* Program constants.                                                      *)
(***************************************************************************)
maxConsecutive == 5
DefaultCooldown == 5000
BreakerMaxAttempts == 2
StatusOk == 200
StatusUpstream == 502
StatusFailFast == 503
Null == -1            \* the JavaScript null of `openedUntil || null`
ItemMaxAttempts == 3
SecondarySlice == 12
TemplateSlice == 20
TokenTTL == 86400000  \* 24 * 60 * 60 * 1000
Undefined == "undefined"
NullReason == "null"   \* the null a nullable text column reads back as

Runs == {1, 2}        \* task runs that may overlap on the module-level state
SeqRuns == {1}        \* one run at a time

VARIABLES
  now,            \* Date.now()
  consecutive,    \* module-level `let consecutive`
  openedUntil,    \* module-level `let openedUntil` (0 = never opened)
  cbPc,           \* per run: "idle", "loop", "retry", "settle", "done"
  cbPayload,      \* per run: the payload of the run
  cbI,            \* per run: loop index i
  cbAttempt,      \* per run: attempt number inside retry.onThrow
  cbR,            \* per run: the value r the awaited retry resolved to
  results,        \* per run: the results array
  cbRet,          \* per run: <<>> or <<the returned summary>>
  cbCall,         \* per run, history: the call the run made last
  cbHist,         \* history of the completed (attempted) calls
  psPc,           \* agents.partial-success: "idle", "item", "retry", "done"
  psItems,        \* payload.items
  psIdx,          \* position of the for-of loop in payload.items
  attempts,       \* `let attempts` of the current item
  psResults,      \* the `results` record, keyed by `item:${id}`
  psRet,          \* <<>> or <<the returned object>>
  psTrace,        \* history: outcomes of the invocations for the current item
  psDone,         \* history: per processed position, what happened to it
  heLog,          \* agents.human-escalation: the invocations made and their results
  escalationToken,\* agents.human-escalation-prod: the EscalationToken table
  hepPc,          \* per invocation: position in humanEscalationProd.run
  hepPayload,     \* per invocation: its payload
  hepToken,       \* per invocation: `const resumeToken` of the escalation path
  hepFound,       \* per invocation: `const escalation` read by findUnique
  hepOut,         \* per invocation: <<>> or <<result or raised error>>
  gdPc,           \* agents.graceful-degradation: "idle", "primary", "secondary", "template", "done"
  gdPayload,      \* payload of the run
  gdEnv,          \* process.env.LLM_MOCK
  gdCalls,        \* history: the models callLLM was invoked with, in order
  gdRet,          \* <<>> or <<the returned object>>
  batchItem,      \* agents.partial-success-prod: the BatchItem table, by idempotencyKey
  auditLog,       \* the AuditLog rows written by the batch runs
  pspPc,          \* per run: "idle", "lookup", "retry", "store", "done"
  pspPayload,     \* per run: its payload
  pspIdx,         \* per run: position of the for-of loop in items
  pspAttempts,    \* per run: `let attempts`
  pspProc,        \* per run: `const processResult`
  pspResults,     \* per run: the `results` record, keyed by item.id
  pspOut,         \* per run: <<>> or <<returned object or raised error>>
  pspInv,         \* history: invocations of processItem per idempotencyKey and run
  redis,          \* agents.circuit-breaker-prod: the Redis keys and their values
  cbState,        \* the CircuitBreakerState table, by serviceName
  cbpPc,          \* per invocation: "idle", "check", "fetch", "incr", "open", "done"
  cbpPayload,     \* per invocation: its payload
  cbpChk,         \* history: the time of the open check and the value it read
  cbpCons,        \* per invocation: `const consecutive`
  cbpOut,         \* per invocation: <<>> or <<returned object or raised error>>
  gdpPc,          \* agents.graceful-degradation-prod: "idle", "primary", "secondary", "template", "done"
  gdpPayload,     \* its payload
  gdpCalls,       \* history: the tiers invoked by the run and what they got
  llmUsage,       \* the LLMUsage rows written by trackUsage
  gdpRet,         \* <<>> or <<returned object or raised error>>
  cliPc,          \* the CLI test runner: "idle", "running", "exited"
  cliRunner,      \* which runner file was started
  cliArg,         \* process.argv[2], or "unset"
  cliQueue,       \* the pattern functions still to be awaited
  cliResults,     \* what the awaited pattern functions returned, by name
  cliExit,        \* the exit code of the process, or Null while it runs
  taStore,        \* TESTING.md Redis adaptation of the breaker: the Redis keys
  taPc,           \* per call: "idle", "update", "open", "done"
  taLocal,        \* per call: the values read into `consecutive` and `openedUntil`
  taHist,         \* history: failed calls completed since the last completed success
  trPc,           \* agents.test-all-patterns: "idle", the pattern under test, "summary", "done"
  trPayload,      \* its payload
  trResults,      \* its `results`, by pattern name
  trRet,          \* <<>> or <<the object it returned>>
  trRan           \* history: the patterns it awaited, and whether each one raised

cbVars == <<consecutive, openedUntil, cbPc, cbPayload, cbI, cbAttempt,
            cbR, results, cbRet, cbCall, cbHist>>
psVars == <<psPc, psItems, psIdx, attempts, psResults, psRet, psTrace, psDone>>
heVars == <<heLog>>
hepVars == <<escalationToken, hepPc, hepPayload, hepToken, hepFound, hepOut>>
gdVars == <<gdPc, gdPayload, gdEnv, gdCalls, gdRet>>
pspVars == <<batchItem, auditLog, pspPc, pspPayload, pspIdx, pspAttempts,
             pspProc, pspResults, pspOut, pspInv>>
cbpVars == <<redis, cbState, cbpPc, cbpPayload, cbpChk, cbpCons, cbpOut>>
gdpVars == <<gdpPc, gdpPayload, gdpCalls, llmUsage, gdpRet>>
cliVars == <<cliPc, cliRunner, cliArg, cliQueue, cliResults, cliExit>>
taVars == <<taStore, taPc, taLocal, taHist>>
trVars == <<trPc, trPayload, trResults, trRet, trRan>>

vars == <<now, cbVars, psVars, heVars, hepVars, gdVars, pspVars, cbpVars, gdpVars, cliVars, taVars, trVars>>

(***************************************************************************)
(* Helpers shared by the components.                                       *)
(***************************************************************************)

\* retry.onThrow(fn, {maxAttempts}): after the throw of attempt number
\* `attempt` the function is called again iff attempts remain; the kind of
\* error plays no part in the decision.
RetryAgain_Never(attempt, maxAttempts) == FALSE
RetryAgain_OneMore(attempt, maxAttempts) == attempt <= maxAttempts
RetryAgain(attempt, maxAttempts) == attempt < maxAttempts

(***************************************************************************)
(* agents.circuit-breaker: helpers                                         *)
(***************************************************************************)

\* payload.cooldownMs ?? 5000
Cooldown(payload) ==
  IF "cooldownMs" \in DOMAIN payload THEN payload.cooldownMs ELSE DefaultCooldown

CBPayloads ==
  [calls : 0..MaxCalls] \cup [calls : 0..MaxCalls, cooldownMs : 1..MaxCooldown]

NoCall == [at |-> 0, open |-> 0, inv |-> 0, status |-> 0, probe |-> FALSE,
           seen |-> 0, ranTrip |-> FALSE]
NoPayload == [calls |-> 0]
NoR == [ok |-> FALSE, status |-> 0]

\* the fail-fast test `now < openedUntil`
IsOpen_Inclusive(t, until) == t <= until
IsOpen_Latched(t, until) == until # 0
IsOpen(t, until) == t < until

\* results.filter(r => r.ok).length
RECURSIVE CountOk(_)
CountOk(rs) ==
  IF rs = <<>> THEN 0
  ELSE (IF Head(rs).ok THEN 1 ELSE 0) + CountOk(Tail(rs))

\* the object returned by circuitBreaker.run (durationMs left out)
Summary_PastThreshold(rs, cons, opened) ==
  [ ok |-> (Len(rs) - CountOk(rs)) = 0,
    attempts |-> Len(rs),
    okCount |-> CountOk(rs),
    failCount |-> Len(rs) - CountOk(rs),
    consecutivelyTripped |-> cons > maxConsecutive,
    openUntil |-> IF opened = 0 THEN Null ELSE opened ]
Summary_RejectedUncounted(rs, cons, opened) ==
  [ ok |-> Cardinality({k \in 1..Len(rs) : rs[k].status = StatusUpstream}) = 0,
    attempts |-> Len(rs),
    okCount |-> CountOk(rs),
    failCount |-> Cardinality({k \in 1..Len(rs) : rs[k].status = StatusUpstream}),
    consecutivelyTripped |-> cons >= maxConsecutive,
    openUntil |-> IF opened = 0 THEN Null ELSE opened ]
Summary(rs, cons, opened) ==
  [ ok |-> (Len(rs) - CountOk(rs)) = 0,
    attempts |-> Len(rs),
    okCount |-> CountOk(rs),
    failCount |-> Len(rs) - CountOk(rs),
    consecutivelyTripped |-> cons >= maxConsecutive,
    openUntil |-> IF opened = 0 THEN Null ELSE opened ]

\* consecutive = r.ok ? 0 : consecutive + 1
NextConsecutive_NoReset(r, cons) == IF r.ok THEN cons ELSE cons + 1
NextConsecutive(r, cons) == IF r.ok THEN 0 ELSE cons + 1

\* if (consecutive >= maxConsecutive)
Trips_OnlyAtThreshold(cons) == cons = maxConsecutive
Trips_OneLate(cons) == cons > maxConsecutive
Trips(cons) == cons >= maxConsecutive

(***************************************************************************)
(* agents.human-escalation-prod: helpers                                   *)
(***************************************************************************)
Invocations == {1, 2, 3}   \* task runs; the run id is ctx.run.id
UUIDs == {"u1", "u2"}      \* values crypto.randomUUID() may return

NoToken == [token |-> "", expiresAt |-> 0]
NoRow == [found |-> FALSE]

(***************************************************************************)
(* agents.partial-success-prod: helpers                                    *)
(***************************************************************************)
BatchRuns == {1, 2}        \* runs of the task (triggers and retriggers)
BatchIds == {"b1", "b2"}

(***************************************************************************)
(* agents.circuit-breaker-prod: helpers                                    *)
(***************************************************************************)
BreakerCalls == {1, 2}     \* runs of the task; each run is one guarded call
ProdMaxConsecutive == 5    \* maxConsecutive = 5
ProdCooldown == 30000      \* cooldownMs = 30000

(***************************************************************************)
(* Initial state: the modules have just been loaded.                       *)
(***************************************************************************)
CBInit ==
  /\ consecutive = 0
  /\ openedUntil = 0
  /\ cbPc = [r \in Runs |-> "idle"]
  /\ cbPayload = [r \in Runs |-> NoPayload]
  /\ cbI = [r \in Runs |-> 0]
  /\ cbAttempt = [r \in Runs |-> 0]
  /\ cbR = [r \in Runs |-> NoR]
  /\ results = [r \in Runs |-> <<>>]
  /\ cbRet = [r \in Runs |-> <<>>]
  /\ cbCall = [r \in Runs |-> NoCall]
  /\ cbHist = [streak |-> 0, last |-> "none", openAtOk |-> 0,
               tripped |-> FALSE, prevStreak |-> 0]

PSInit ==
  /\ psPc = "idle"
  /\ psItems = <<>>
  /\ psIdx = 1
  /\ attempts = 0
  /\ psResults = <<>>
  /\ psRet = <<>>
  /\ psTrace = <<>>
  /\ psDone = <<>>

HEInit == heLog = <<>>

HEPInit ==
  /\ escalationToken = [t \in {} |-> 0]
  /\ hepPc = [p \in Invocations |-> "idle"]
  /\ hepPayload = [p \in Invocations |-> [data |-> "d"]]
  /\ hepToken = [p \in Invocations |-> NoToken]
  /\ hepFound = [p \in Invocations |-> NoRow]
  /\ hepOut = [p \in Invocations |-> <<>>]

GDInit ==
  /\ gdPc = "idle"
  /\ gdPayload = <<>>
  /\ gdEnv = "unset"
  /\ gdCalls = <<>>
  /\ gdRet = <<>>

PSPInit ==
  /\ batchItem = [k \in {} |-> 0]
  /\ auditLog = {}
  /\ pspPc = [r \in BatchRuns |-> "idle"]
  /\ pspPayload = [r \in BatchRuns |-> [batchId |-> "b1", items |-> <<>>]]
  /\ pspIdx = [r \in BatchRuns |-> 1]
  /\ pspAttempts = [r \in BatchRuns |-> 0]
  /\ pspProc = [r \in BatchRuns |-> [ok |-> FALSE]]
  /\ pspResults = [r \in BatchRuns |-> [k \in {} |-> 0]]
  /\ pspOut = [r \in BatchRuns |-> <<>>]
  /\ pspInv = [k \in {} |-> 0]

CBPInit ==
  /\ redis = [k \in {} |-> 0]
  /\ cbState = [k \in {} |-> 0]
  /\ cbpPc = [p \in BreakerCalls |-> "idle"]
  /\ cbpPayload = [p \in BreakerCalls |-> [serviceName |-> "s1", endpoint |-> "e"]]
  /\ cbpChk = [p \in BreakerCalls |-> [at |-> 0, until |-> 0]]
  /\ cbpCons = [p \in BreakerCalls |-> 0]
  /\ cbpOut = [p \in BreakerCalls |-> <<>>]

GDPInit ==
  /\ gdpPc = "idle"
  /\ gdpPayload = [prompt |-> <<>>]
  /\ gdpCalls = <<>>
  /\ llmUsage = {}
  /\ gdpRet = <<>>

CLIInit ==
  /\ cliPc = "idle"
  /\ cliRunner = "test-cli.ts"
  /\ cliArg = "unset"
  /\ cliQueue = <<>>
  /\ cliResults = [k \in {} |-> 0]
  /\ cliExit = Null

TAInit ==
  /\ taStore = [k \in {} |-> 0]
  /\ taPc = [p \in BreakerCalls |-> "idle"]
  /\ taLocal = [p \in BreakerCalls |-> [consecutive |-> 0, openedUntil |-> 0]]
  /\ taHist = [streak |-> 0]

TRInit ==
  /\ trPc = "idle"
  /\ trPayload = [skipEscalation |-> FALSE]
  /\ trResults = [k \in {} |-> 0]
  /\ trRet = <<>>
  /\ trRan = <<>>

Init ==
  /\ now = 1
  /\ CBInit
  /\ PSInit
  /\ HEInit
  /\ HEPInit
  /\ GDInit
  /\ PSPInit
  /\ CBPInit
  /\ GDPInit
  /\ CLIInit
  /\ TAInit
  /\ TRInit

(***************************************************************************)
(* The clock of the circuit breaker runs.                                  *)
(***************************************************************************)
Tick ==
  /\ now < MaxTime
  /\ now' = now + 1
  /\ UNCHANGED <<cbVars, psVars, heVars, hepVars, gdVars, pspVars, cbpVars, gdpVars, cliVars, taVars, trVars>>

(***************************************************************************)
(* agents.circuit-breaker                                                  *)
(***************************************************************************)

\* the task is triggered with a payload
CBStart(r, payload) ==
  /\ cbPc[r] \in {"idle", "done"}
  /\ cbPc' = [cbPc EXCEPT ![r] = "loop"]
  /\ cbPayload' = [cbPayload EXCEPT ![r] = payload]
  /\ cbI' = [cbI EXCEPT ![r] = 0]
  /\ cbAttempt' = [cbAttempt EXCEPT ![r] = 0]
  /\ cbR' = [cbR EXCEPT ![r] = NoR]
  /\ results' = [results EXCEPT ![r] = <<>>]
  /\ cbRet' = [cbRet EXCEPT ![r] = <<>>]
  /\ cbCall' = [cbCall EXCEPT ![r] = NoCall]
  /\ UNCHANGED <<now, consecutive, openedUntil, cbHist>>
  /\ UNCHANGED <<psVars, heVars, hepVars, gdVars, pspVars, cbpVars, gdpVars, cliVars, taVars, trVars>>

\* what the fail-fast branch does to `consecutive`: it has no statement
\* that writes it
AfterFailFast_Counted(cons) == cons + 1
AfterFailFast(cons) == cons

\* loop head while the breaker is open: fail fast and continue
CBFailFast(r) ==
  /\ cbPc[r] = "loop"
  /\ cbI[r] < cbPayload[r].calls
  /\ IsOpen(now, openedUntil)
  /\ results' = [results EXCEPT ![r] = Append(@, [ok |-> FALSE, status |-> StatusFailFast])]
  /\ cbI' = [cbI EXCEPT ![r] = @ + 1]
  /\ cbCall' = [cbCall EXCEPT ![r] =
        [at |-> now, open |-> openedUntil, inv |-> 0, status |-> StatusFailFast,
         probe |-> FALSE, seen |-> consecutive, ranTrip |-> cbCall[r].ranTrip]]
  /\ consecutive' = AfterFailFast(consecutive)
  /\ UNCHANGED <<now, openedUntil, cbPc, cbPayload, cbAttempt,
                 cbR, cbRet, cbHist>>
  /\ UNCHANGED <<psVars, heVars, hepVars, gdVars, pspVars, cbpVars, gdpVars, cliVars, taVars, trVars>>

\* loop head while the breaker is not open: enter retry.onThrow
CBBeginCall(r) ==
  /\ cbPc[r] = "loop"
  /\ cbI[r] < cbPayload[r].calls
  /\ ~IsOpen(now, openedUntil)
  /\ cbPc' = [cbPc EXCEPT ![r] = "retry"]
  /\ cbAttempt' = [cbAttempt EXCEPT ![r] = 1]
  /\ cbCall' = [cbCall EXCEPT ![r] =
        [at |-> now, open |-> openedUntil, inv |-> 0, status |-> 0,
         probe |-> cbHist.tripped, seen |-> consecutive,
         ranTrip |-> cbCall[r].ranTrip]]
  /\ UNCHANGED <<now, consecutive, openedUntil, cbPayload, cbI, cbR, results,
                 cbRet, cbHist>>
  /\ UNCHANGED <<psVars, heVars, hepVars, gdVars, pspVars, cbpVars, gdpVars, cliVars, taVars, trVars>>

\* one invocation of the simulated upstream inside retry.onThrow; when the
\* retry is over, r is the value the awaited expression resolves to
CBAttempt(r, throws) ==
  /\ cbPc[r] = "retry"
  /\ cbCall' = [cbCall EXCEPT ![r].inv = @ + 1]
  /\ IF ~throws
       THEN /\ cbR' = [cbR EXCEPT ![r] = [ok |-> TRUE, status |-> StatusOk]]
            /\ cbPc' = [cbPc EXCEPT ![r] = "settle"]
            /\ UNCHANGED cbAttempt
       ELSE IF RetryAgain(cbAttempt[r], BreakerMaxAttempts)
         THEN /\ cbAttempt' = [cbAttempt EXCEPT ![r] = @ + 1]
              /\ UNCHANGED <<cbR, cbPc>>
         ELSE /\ cbR' = [cbR EXCEPT ![r] = [ok |-> FALSE, status |-> StatusUpstream]]
              /\ cbPc' = [cbPc EXCEPT ![r] = "settle"]
              /\ UNCHANGED cbAttempt
  /\ UNCHANGED <<now, consecutive, openedUntil, cbPayload, cbI, results,
                 cbRet, cbHist>>
  /\ UNCHANGED <<psVars, heVars, hepVars, gdVars, pspVars, cbpVars, gdpVars, cliVars, taVars, trVars>>

\* the value of `consecutive` the continuation after the await works on: it
\* is read in the statement that writes it, with no await in between
CounterRead_Stale(r) == cbCall[r].seen
CounterRead(r) == consecutive

\* the continuation after the await: push r, update the counter, maybe open
CBSettle(r) ==
  /\ cbPc[r] = "settle"
  /\ cbR[r].ok \/ consecutive < MaxFailures
  /\ results' = [results EXCEPT ![r] = Append(@, cbR[r])]
  /\ consecutive' = NextConsecutive(cbR[r], CounterRead(r))
  /\ openedUntil' = IF Trips(consecutive')
                      THEN now + Cooldown(cbPayload[r])
                      ELSE openedUntil
  /\ cbI' = [cbI EXCEPT ![r] = @ + 1]
  /\ cbPc' = [cbPc EXCEPT ![r] = "loop"]
  /\ cbCall' = [cbCall EXCEPT ![r].status = cbR[r].status,
                               ![r].ranTrip = @ \/ (~(now < openedUntil) /\ now < openedUntil')]
  /\ cbHist' = [streak |-> IF cbR[r].ok THEN 0 ELSE cbHist.streak + 1,
                last |-> IF cbR[r].ok THEN "ok" ELSE "fail",
                openAtOk |-> IF cbR[r].ok THEN openedUntil ELSE cbHist.openAtOk,
                tripped |-> ~cbR[r].ok /\ cbHist.streak + 1 >= maxConsecutive,
                prevStreak |-> cbHist.streak]
  /\ UNCHANGED <<now, cbPayload, cbAttempt, cbR, cbRet>>
  /\ UNCHANGED <<psVars, heVars, hepVars, gdVars, pspVars, cbpVars, gdpVars, cliVars, taVars, trVars>>

\* the loop is over: build the summary and return
CBReturn(r) ==
  /\ cbPc[r] = "loop"
  /\ ~(cbI[r] < cbPayload[r].calls)
  /\ cbRet' = [cbRet EXCEPT ![r] = <<Summary(results[r], consecutive, openedUntil)>>]
  /\ cbPc' = [cbPc EXCEPT ![r] = "done"]
  /\ UNCHANGED <<now, consecutive, openedUntil, cbPayload, cbI, cbAttempt,
                 cbR, results, cbCall, cbHist>>
  /\ UNCHANGED <<psVars, heVars, hepVars, gdVars, pspVars, cbpVars, gdpVars, cliVars, taVars, trVars>>

CBStep(r) ==
  \/ \E payload \in CBPayloads : CBStart(r, payload)
  \/ CBFailFast(r)
  \/ CBBeginCall(r)
  \/ \E throws \in BOOLEAN : CBAttempt(r, throws)
  \/ CBSettle(r)
  \/ CBReturn(r)

\* runs that overlap on the same module state: every run makes one call, and
\* a run that has returned may be triggered again
CBConcPayloads == {[calls |-> 1, cooldownMs |-> 1]}

TickConc ==
  /\ now < MaxConcTime
  /\ now' = now + 1
  /\ UNCHANGED <<cbVars, psVars, heVars, hepVars, gdVars, pspVars, cbpVars, gdpVars, cliVars, taVars, trVars>>

CBStepConc(r) ==
  \/ \E payload \in CBConcPayloads : CBStart(r, payload)
  \/ CBFailFast(r)
  \/ CBBeginCall(r)
  \/ \E throws \in BOOLEAN : CBAttempt(r, throws)
  \/ CBSettle(r)
  \/ CBReturn(r)

NextCB == TickConc \/ \E r \in Runs : CBStepConc(r)

SpecCB == Init /\ [][NextCB]_vars

\* C19 (as claimed): the result of a run reports whether that run tripped
\* the circuit: consecutivelyTripped is TRUE iff some call of the run moved
\* the breaker from not-open to open.
C19_TrippedByThisRun ==
  \A r \in Runs :
    cbRet[r] # <<>> => (cbRet[r][1].consecutivelyTripped <=> cbCall[r].ranTrip)

\* C19 (amended): consecutivelyTripped reports the state of the shared counter
\* at the moment the run returns: it is TRUE iff the calls completed since
\* the last completed success, counted across the runs that came before as
\* well, are at least maxConsecutive failures. A run that tripped nothing
\* reports TRUE when an earlier run left the counter at the threshold, and
\* a run that tripped the breaker and then had a success reports FALSE.
C19_ReportsCounterState ==
  \A r \in SeqRuns :
    cbRet[r] # <<>> =>
      (cbRet[r][1].consecutivelyTripped <=> cbHist.streak >= maxConsecutive)

\* a run that made calls and tripped nothing has returned
\* consecutivelyTripped = TRUE
C19_Witness ==
  \E r \in SeqRuns :
    /\ cbRet[r] # <<>>
    /\ cbRet[r][1].consecutivelyTripped
    /\ cbRet[r][1].attempts > 0
    /\ ~cbCall[r].ranTrip

\* C15: under every interleaving of overlapping runs no update of the counter
\* is lost. Every completed failed call raises `consecutive` by exactly one
\* over the value it has at that moment and every completed success sets it
\* to 0, so it always equals the number of failures completed since the last
\* completed success, and the failure that brings this number to
\* maxConsecutive leaves the breaker open.
C15_NoLostUpdate ==
  [][\A r \in Runs :
       (cbPc[r] = "settle" /\ cbPc'[r] = "loop")
         => /\ consecutive' = IF cbR[r].ok THEN 0 ELSE consecutive + 1
            /\ consecutive' = cbHist'.streak
            /\ (~cbR[r].ok /\ cbHist'.streak >= maxConsecutive)
                 => now' < openedUntil']_vars

\* two calls began on the same counter value, both failed, and the counter
\* rose by two to the threshold, which opened the breaker
C15_Witness ==
  /\ cbCall[1].status = StatusUpstream /\ cbCall[2].status = StatusUpstream
  /\ cbCall[1].seen = cbCall[2].seen
  /\ consecutive = cbCall[1].seen + 2
  /\ consecutive = maxConsecutive
  /\ now < openedUntil

\* calls of one run at a time (runs follow each other on the same module state)
NextCBSeq == Tick \/ \E r \in SeqRuns : CBStep(r)

SpecCBSeq == Init /\ [][NextCBSeq]_vars

\* a run is triggered with at least one call to make
CBStartLive(r) ==
  \E payload \in CBPayloads : payload.calls >= 1 /\ CBStart(r, payload)

\* the clock keeps advancing, a run under way keeps stepping, and runs with
\* calls keep being triggered
FairCB ==
  /\ WF_vars(Tick)
  /\ \A r \in SeqRuns :
       /\ WF_vars(CBFailFast(r))
       /\ WF_vars(CBBeginCall(r))
       /\ WF_vars(\E throws \in BOOLEAN : CBAttempt(r, throws))
       /\ WF_vars(CBSettle(r))
       /\ WF_vars(CBReturn(r))
       /\ SF_vars(CBStartLive(r))

SpecCBLive == Init /\ [][NextCBSeq]_vars /\ FairCB

\* C21: the circuit closes by itself after the cooldown. From every state in
\* which the breaker is open until a time the clock of the model reaches, a
\* call is eventually passed to the upstream operation, and no call whose
\* loop head ran at a time >= the openedUntil then in force got the
\* fail-fast result.
C21_AutoCloses ==
  /\ ((now < openedUntil /\ openedUntil <= MaxTime)
        ~> (\E r \in SeqRuns : cbPc[r] = "retry" /\ cbCall[r].at >= openedUntil))
  /\ [](\A r \in Runs :
          (cbCall[r] # NoCall /\ cbCall[r].at >= cbCall[r].open)
            => cbCall[r].status # StatusFailFast)

\* the breaker was opened, the cooldown is over, and a call is with the
\* upstream operation
C21_Witness ==
  \E r \in SeqRuns :
    /\ cbPc[r] = "retry"
    /\ openedUntil > 0
    /\ cbCall[r].open = openedUntil
    /\ cbCall[r].at >= openedUntil
    /\ consecutive >= maxConsecutive

\* the step of run r that completes an attempted call
CBSettles(r) == cbPc[r] = "settle" /\ cbPc'[r] = "loop"

(***************************************************************************)
(* C1: after maxConsecutive consecutive failed calls with no success in    *)
(* between the breaker is open (openedUntil = now + cooldown, later than   *)
(* now); a call made while now < openedUntil gets {ok: false, status: 503} *)
(* with no invocation of the upstream operation; a call made at            *)
(* now >= openedUntil is passed to the operation.                          *)
(***************************************************************************)
C1_OpensAfterThreshold ==
  \A r \in Runs :
    (CBSettles(r) /\ cbHist'.last = "fail" /\ cbHist'.streak >= maxConsecutive)
      => /\ openedUntil' = now + Cooldown(cbPayload[r])
         /\ now' < openedUntil'

C1_CallsWhileOpenFailFast ==
  \A r \in Runs :
    /\ cbCall[r].at < cbCall[r].open
         => /\ cbCall[r].status = StatusFailFast
            /\ cbCall[r].inv = 0
            /\ results[r] # <<>>
            /\ results[r][Len(results[r])] = [ok |-> FALSE, status |-> StatusFailFast]
    /\ (cbCall[r] # NoCall /\ cbCall[r].at >= cbCall[r].open)
         => /\ cbCall[r].status # StatusFailFast
            /\ cbCall[r].status = 0 => cbPc[r] \in {"retry", "settle"}
            /\ cbCall[r].status # 0 => cbCall[r].inv >= 1

C1_TripsAndRecovers ==
  /\ [][C1_OpensAfterThreshold]_vars
  /\ []C1_CallsWhileOpenFailFast

\* a call was rejected while the breaker was open, and (in the same run) the
\* breaker had opened at the fifth consecutive failure
C1_Witness ==
  \E r \in Runs :
    /\ cbCall[r].status = StatusFailFast
    /\ cbCall[r].at < cbCall[r].open
    /\ cbHist.streak = maxConsecutive

\* the first call after the cooldown went to the upstream operation
C1_WitnessRecovered ==
  \E r \in Runs :
    /\ cbCall[r].open # 0
    /\ cbCall[r].at >= cbCall[r].open
    /\ cbCall[r].probe
    /\ cbCall[r].inv >= 1

(***************************************************************************)
(* C8: a successful call resets consecutive to 0, whatever the number of   *)
(* failures before it; from then on the breaker is not (re)opened before   *)
(* maxConsecutive further consecutive failures.                            *)
(***************************************************************************)
C8_SingleSuccessResets ==
  /\ cbHist.last = "ok" => consecutive = 0
  /\ consecutive = cbHist.streak
  /\ cbHist.streak < maxConsecutive => openedUntil = cbHist.openAtOk

\* a success arrived after 1..maxConsecutive-1 consecutive failures
C8_Witness ==
  /\ cbHist.last = "ok"
  /\ cbHist.prevStreak \in 1..(maxConsecutive - 1)
  /\ consecutive = 0

(***************************************************************************)
(* C9 (as claimed): after any success the stored openedUntil is absent (0) *)
(* and a summary returned reports openUntil = null.                        *)
(***************************************************************************)
C9_SuccessClearsOpenUntil ==
  cbHist.last = "ok" =>
    /\ openedUntil = 0
    /\ \A r \in Runs : cbRet[r] # <<>> => cbRet[r][1].openUntil = Null

(***************************************************************************)
(* C10: the first call attempted after the breaker's openedUntil has       *)
(* passed closes the breaker when it succeeds (consecutive = 0) and        *)
(* re-opens it at once when it fails (openedUntil = now + cooldown).       *)
(***************************************************************************)
C10_HalfOpenStep ==
  \A r \in Runs :
    (CBSettles(r) /\ cbCall[r].probe)
      => IF cbR[r].ok
           THEN consecutive' = 0
           ELSE /\ openedUntil' = now + Cooldown(cbPayload[r])
                /\ now' < openedUntil'

C10_ProbeIsFirstAfterCooldown ==
  \A r \in Runs :
    cbCall[r].probe => (cbCall[r].open # 0 /\ cbCall[r].at >= cbCall[r].open)

C10_HalfOpen ==
  /\ [][C10_HalfOpenStep]_vars
  /\ []C10_ProbeIsFirstAfterCooldown

\* the probe failed once and the breaker is open again
C10_Witness ==
  \E r \in Runs :
    /\ cbCall[r].probe
    /\ cbCall[r].status = StatusUpstream
    /\ cbHist.streak = maxConsecutive + 1
    /\ now < openedUntil

(***************************************************************************)
(* C33 (as claimed): in every state of overlapping runs that share the     *)
(* module-level counter, an open breaker (now < openedUntil) has           *)
(* consecutive >= maxConsecutive; no call that was in flight when the      *)
(* breaker tripped brings the counter back to 0 while it is open.          *)
(***************************************************************************)
C33_OpenImpliesAtThreshold ==
  /\ [](now < openedUntil => consecutive >= maxConsecutive)
  /\ [][\A r \in Runs :
          (cbPc[r] = "settle" /\ cbPc'[r] = "loop" /\ now < openedUntil)
            => consecutive' # 0]_vars

(***************************************************************************)
(* C38: the summary a run returns is consistent with its calls: attempts   *)
(* is payload.calls, okCount is the number of calls that came back with    *)
(* status 200, failCount is the number of calls that failed upstream plus  *)
(* the number rejected by the open circuit, okCount + failCount =          *)
(* attempts, and ok is true iff failCount = 0.                             *)
(***************************************************************************)
C38_SummaryConsistent ==
  \A r \in Runs :
    (cbPc[r] = "done" /\ cbRet[r] # <<>>) =>
      LET ret == cbRet[r][1]
          with(status) == Cardinality({k \in 1..Len(results[r]) :
                                         results[r][k].status = status})
      IN /\ ret.attempts = cbPayload[r].calls
         /\ ret.okCount + ret.failCount = ret.attempts
         /\ ret.ok <=> ret.failCount = 0
         /\ ret.okCount = with(StatusOk)
         /\ ret.failCount = with(StatusUpstream) + with(StatusFailFast)

\* a run returned after a call rejected by the open circuit and a call
\* that succeeded once the circuit had closed
C38_Witness ==
  \E r \in SeqRuns :
    /\ cbPc[r] = "done" /\ cbRet[r] # <<>>
    /\ results[r] = <<[ok |-> FALSE, status |-> StatusFailFast],
                      [ok |-> TRUE, status |-> StatusOk]>>
    /\ cbRet[r][1].failCount = 1
    /\ cbRet[r][1].okCount = 1
    /\ ~cbRet[r][1].ok

(***************************************************************************)
(* C28: a call rejected by the open circuit changes nothing but the run's  *)
(* results. The step a run takes at a loop head with a call left and       *)
(* now < openedUntil appends {ok: false, status: 503}, goes on to the next *)
(* call without entering retry.onThrow (no invocation, no retry), and      *)
(* leaves consecutive and openedUntil as they were.                        *)
(***************************************************************************)
C28_RejectionChangesNothing ==
  [][\A r \in Runs :
       ( /\ cbPc[r] = "loop"
         /\ cbI[r] < cbPayload[r].calls
         /\ now < openedUntil
         /\ <<cbPc[r], cbI[r], results[r]>> # <<cbPc'[r], cbI'[r], results'[r]>> )
       => /\ results'[r] = Append(results[r], [ok |-> FALSE, status |-> StatusFailFast])
          /\ cbI'[r] = cbI[r] + 1
          /\ cbPc'[r] = "loop"
          /\ cbAttempt'[r] = cbAttempt[r]
          /\ cbCall'[r].inv = 0
          /\ consecutive' = consecutive
          /\ openedUntil' = openedUntil
          /\ cbHist' = cbHist]_vars

\* two calls in a row were rejected, and the counter and openedUntil are
\* what the tripping call left
C28_Witness ==
  \E r \in SeqRuns :
    /\ Len(results[r]) >= 2
    /\ results[r][Len(results[r])] = [ok |-> FALSE, status |-> StatusFailFast]
    /\ results[r][Len(results[r]) - 1] = [ok |-> FALSE, status |-> StatusFailFast]
    /\ cbCall[r].inv = 0
    /\ consecutive = cbHist.streak
    /\ consecutive >= maxConsecutive
    /\ now < openedUntil

(***************************************************************************)
(* C26: openedUntil is written only by the settling of a failed call that  *)
(* brings the consecutive failures since the last success to               *)
(* maxConsecutive or more, so with fewer the breaker never opens; and the  *)
(* failure that is exactly the maxConsecutive-th opens it in that very     *)
(* step (openedUntil = now + cooldown), not one call later.                *)
(***************************************************************************)
C26_OpensExactlyAtThreshold ==
  /\ [][openedUntil' # openedUntil =>
          \E r \in Runs :
            /\ cbPc[r] = "settle" /\ cbPc'[r] = "loop"
            /\ ~cbR[r].ok
            /\ cbHist.streak + 1 >= maxConsecutive
            /\ consecutive' >= maxConsecutive]_vars
  /\ [][\A r \in Runs :
          ( /\ cbPc[r] = "settle" /\ cbPc'[r] = "loop"
            /\ ~cbR[r].ok
            /\ cbHist.streak + 1 = maxConsecutive )
          => /\ openedUntil' = now + Cooldown(cbPayload[r])
             /\ now' < openedUntil']_vars
  /\ [](cbHist.streak < maxConsecutive => openedUntil = cbHist.openAtOk)

\* the fifth consecutive failure has just opened a breaker that had never
\* been open
C26_Witness ==
  \E r \in SeqRuns :
    /\ cbHist.last = "fail"
    /\ cbHist.streak = maxConsecutive
    /\ cbCall[r].status = StatusUpstream
    /\ cbCall[r].open = 0
    /\ openedUntil = now + Cooldown(cbPayload[r])

(***************************************************************************)
(* agents.partial-success                                                  *)
(***************************************************************************)
ItemIds == {"a", "b"}

PSPayloads == UNION {[1..n -> ItemIds] : n \in 0..MaxItems}

\* what one invocation of the simulated operation does: return, or throw an
\* error with the code TOKEN_LIMIT or RATE_LIMIT
PSOutcomes == {"ok", "TOKEN_LIMIT", "RATE_LIMIT"}

\* const key = `item:${id}`
Key(id) == "item:" \o id

\* results[key] = value
Assign(rec, key, value) ==
  [k \in DOMAIN rec \cup {key} |-> IF k = key THEN value ELSE rec[k]]

\* Object.values(results).filter(r => r.ok).length
OkValues(rec) == Cardinality({k \in DOMAIN rec : rec[k].ok})

\* the object returned by partialSuccess.run (durationMs left out)
PSSummary(rec) ==
  [ ok |-> (Cardinality(DOMAIN rec) - OkValues(rec)) = 0,
    okCount |-> OkValues(rec),
    failedCount |-> Cardinality(DOMAIN rec) - OkValues(rec),
    results |-> rec ]

\* where the run goes once an item has its res: the catch around
\* retry.onThrow turns a throw into a value, so the loop always goes on
PcAfterItem_Rethrow(res) == IF res.ok THEN "item" ELSE "done"
PcAfterItem(res) == "item"

\* res: what retry.onThrow returned, or what the catch made of the error it
\* let through (e.code is set on both simulated errors)
Res_NoReason(outcome) == [ok |-> outcome = "ok", reason |-> Undefined]
Res(outcome) ==
  IF outcome = "ok" THEN [ok |-> TRUE, reason |-> Undefined]
                    ELSE [ok |-> FALSE, reason |-> outcome]

\* the task is triggered with a payload
PSStart(items) ==
  /\ psPc \in {"idle", "done"}
  /\ psPc' = "item"
  /\ psItems' = items
  /\ psIdx' = 1
  /\ attempts' = 0
  /\ psResults' = [k \in {} |-> 0]
  /\ psRet' = <<>>
  /\ psTrace' = <<>>
  /\ psDone' = <<>>
  /\ UNCHANGED <<now, cbVars, heVars, hepVars, gdVars, pspVars, cbpVars, gdpVars, cliVars, taVars, trVars>>

\* loop head: the next item, `let attempts = 0`, enter retry.onThrow
PSBeginItem ==
  /\ psPc = "item"
  /\ psIdx <= Len(psItems)
  /\ psPc' = "retry"
  /\ attempts' = 0
  /\ psTrace' = <<>>
  /\ UNCHANGED <<psItems, psIdx, psResults, psRet, psDone>>
  /\ UNCHANGED <<now, cbVars, heVars, hepVars, gdVars, pspVars, cbpVars, gdpVars, cliVars, taVars, trVars>>

\* one invocation of the item's operation inside retry.onThrow; when the
\* retry is over, res is computed and results[key] is written
PSAttempt(outcome) ==
  /\ psPc = "retry"
  /\ attempts' = attempts + 1
  /\ psTrace' = Append(psTrace, outcome)
  /\ IF outcome # "ok" /\ RetryAgain(attempts', ItemMaxAttempts)
       THEN UNCHANGED <<psPc, psIdx, psResults, psDone>>
       ELSE LET res == Res(outcome)
            IN /\ psResults' = Assign(psResults, Key(psItems[psIdx]),
                                      [ok |-> res.ok, attempts |-> attempts',
                                       reason |-> res.reason])
               /\ psDone' = Append(psDone, [ok |-> outcome = "ok",
                                            inv |-> Len(psTrace')])
               /\ psIdx' = psIdx + 1
               /\ psPc' = PcAfterItem(res)
  /\ UNCHANGED <<psItems, psRet>>
  /\ UNCHANGED <<now, cbVars, heVars, hepVars, gdVars, pspVars, cbpVars, gdpVars, cliVars, taVars, trVars>>

\* the loop is over: count and return
PSReturn ==
  /\ psPc = "item"
  /\ psIdx > Len(psItems)
  /\ psRet' = <<PSSummary(psResults)>>
  /\ psPc' = "done"
  /\ UNCHANGED <<psItems, psIdx, attempts, psResults, psTrace, psDone>>
  /\ UNCHANGED <<now, cbVars, heVars, hepVars, gdVars, pspVars, cbpVars, gdpVars, cliVars, taVars, trVars>>

NextPS ==
  \/ \E items \in PSPayloads : PSStart(items)
  \/ PSBeginItem
  \/ \E outcome \in PSOutcomes : PSAttempt(outcome)
  \/ PSReturn

SpecPS == Init /\ [][NextPS]_vars

(***************************************************************************)
(* C2 (as claimed): an invocation that raises TOKEN_LIMIT is the last one  *)
(* for its item, and an item whose first invocation raises TOKEN_LIMIT is  *)
(* finalized as a failure with attempts = 1; a RATE_LIMIT before the last  *)
(* allowed attempt is followed by another invocation.                      *)
(***************************************************************************)
C2_FatalNeverRetried ==
  /\ \A k \in 1..Len(psTrace) : psTrace[k] = "TOKEN_LIMIT" => k = Len(psTrace)
  /\ (psPc \in {"item", "done"} /\ psTrace # <<>> /\ psTrace[1] = "TOKEN_LIMIT")
       => /\ psDone[Len(psDone)] = [ok |-> FALSE, inv |-> 1]
          /\ psResults[Key(psItems[Len(psDone)])].ok = FALSE
          /\ psResults[Key(psItems[Len(psDone)])].attempts = 1
  /\ (psPc \in {"item", "done"} /\ psTrace # <<>>)
       => \A k \in 1..Len(psTrace) :
            (psTrace[k] = "RATE_LIMIT" /\ k < ItemMaxAttempts) => k < Len(psTrace)

(***************************************************************************)
(* C3: every item of the batch is attempted and has a result, whatever     *)
(* the outcomes of the items before it; the result stored for an item is   *)
(* the outcome of its own (latest) processing, and the run returns the     *)
(* results of all items.                                                   *)
(***************************************************************************)
LatestSoFar(p) == \A q \in (p + 1)..Len(psDone) : psItems[q] # psItems[p]

C11_RetryUpToCap ==
  /\ Len(psTrace) <= ItemMaxAttempts
  /\ attempts = Len(psTrace)
  /\ \A p \in 1..Len(psDone) : psDone[p].inv <= ItemMaxAttempts
  /\ ( /\ psPc \in {"item", "done"}
       /\ psTrace # <<>>
       /\ \A k \in 1..Len(psTrace) : psTrace[k] = "RATE_LIMIT" )
     => /\ Len(psTrace) = ItemMaxAttempts
        /\ psDone[Len(psDone)] = [ok |-> FALSE, inv |-> ItemMaxAttempts]
        /\ psResults[Key(psItems[Len(psDone)])] =
             [ok |-> FALSE, attempts |-> ItemMaxAttempts, reason |-> "RATE_LIMIT"]

\* an item was finalized after RATE_LIMIT at each of its invocations
C11_Witness ==
  /\ psPc \in {"item", "done"}
  /\ psTrace = <<"RATE_LIMIT", "RATE_LIMIT", "RATE_LIMIT">>
  /\ ~psDone[Len(psDone)].ok

(***************************************************************************)
(* C29: failures followed by a success within ItemMaxAttempts are          *)
(* absorbed. A RATE_LIMIT raised before the last allowed attempt does not  *)
(* finalize the item, and an item whose k-th invocation returns after k-1  *)
(* RATE_LIMIT failures is stored as {ok: true, attempts: k} with reason    *)
(* undefined.                                                              *)
(***************************************************************************)
C29_FailuresAbsorbed ==
  (psPc \in {"item", "done"} /\ psTrace # <<>>) =>
    /\ Len(psTrace) <= ItemMaxAttempts
    /\ psTrace[Len(psTrace)] = "RATE_LIMIT" => Len(psTrace) = ItemMaxAttempts
    /\ ( /\ psTrace[Len(psTrace)] = "ok"
         /\ \A k \in 1..(Len(psTrace) - 1) : psTrace[k] = "RATE_LIMIT" )
       => /\ psDone[Len(psDone)] = [ok |-> TRUE, inv |-> Len(psTrace)]
          /\ psResults[Key(psItems[Len(psDone)])] =
               [ok |-> TRUE, attempts |-> Len(psTrace), reason |-> Undefined]

\* an item succeeded at its third invocation after two RATE_LIMIT failures
C29_Witness ==
  /\ psPc \in {"item", "done"}
  /\ psTrace = <<"RATE_LIMIT", "RATE_LIMIT", "ok">>
  /\ psResults[Key(psItems[Len(psDone)])].attempts = ItemMaxAttempts
  /\ psResults[Key(psItems[Len(psDone)])].ok

(***************************************************************************)
(* C30: every stored item result is the result of a processing of that     *)
(* item; its attempts is the number of invocations of that processing,     *)
(* between 1 and ItemMaxAttempts, and its reason is defined iff ok is      *)
(* false. The object returned carries these results.                       *)
(***************************************************************************)
C30_ResultShape ==
  /\ \A key \in DOMAIN psResults :
       \E p \in 1..Len(psDone) : Key(psItems[p]) = key /\ LatestSoFar(p)
  /\ \A p \in 1..Len(psDone) :
       LatestSoFar(p) =>
         LET result == psResults[Key(psItems[p])]
         IN /\ result.attempts = psDone[p].inv
            /\ 1 <= result.attempts
            /\ result.attempts <= ItemMaxAttempts
            /\ (result.reason # Undefined) <=> ~result.ok
            /\ result.reason \in {Undefined, "TOKEN_LIMIT", "RATE_LIMIT"}
  /\ psPc = "done" => psRet[1].results = psResults

\* a batch that returned a result with a reason after three invocations next
\* to a result without one after two
C30_Witness ==
  /\ psPc = "done"
  /\ \E j, k \in DOMAIN psRet[1].results :
       /\ psRet[1].results[j].ok
       /\ psRet[1].results[j].attempts = 2
       /\ psRet[1].results[j].reason = Undefined
       /\ ~psRet[1].results[k].ok
       /\ psRet[1].results[k].attempts = ItemMaxAttempts
       /\ psRet[1].results[k].reason # Undefined

\* the sequences of outcomes one processing of an item can see: every
\* outcome but the last is a throw that retry.onThrow retried
ItemTraces ==
  {t \in UNION {[1..n -> PSOutcomes] : n \in 1..ItemMaxAttempts} :
     /\ \A k \in 1..(Len(t) - 1) : t[k] # "ok" /\ RetryAgain(k, ItemMaxAttempts)
     /\ ~(t[Len(t)] # "ok" /\ RetryAgain(Len(t), ItemMaxAttempts))}

\* results[key] after a processing that saw the outcomes t
ItemResult(t) ==
  [ok |-> Res(t[Len(t)]).ok, attempts |-> Len(t), reason |-> Res(t[Len(t)]).reason]

\* the item failed after maxAttempts throws, all of them retryable
Exhausted(t) == Len(t) = ItemMaxAttempts /\ \A k \in 1..Len(t) : t[k] = "RATE_LIMIT"

\* the item failed and a non-retryable error was raised on the way
Fatal(t) == t[Len(t)] # "ok" /\ \E k \in 1..Len(t) : t[k] = "TOKEN_LIMIT"

(***************************************************************************)
(* C31 (as claimed): the result stored for an item that failed by          *)
(* exhausting maxAttempts on RATE_LIMIT is a result that no processing     *)
(* that met a TOKEN_LIMIT could have stored, so a reader of the result can *)
(* tell exhaustion from a fatal error.                                     *)
(***************************************************************************)
C31_ExhaustedDistinctFromFatal ==
  (psPc \in {"item", "done"} /\ psTrace # <<>> /\ Exhausted(psTrace)) =>
    /\ psResults[Key(psItems[Len(psDone)])] = ItemResult(psTrace)
    /\ \A t \in ItemTraces :
         Fatal(t) => ItemResult(t) # psResults[Key(psItems[Len(psDone)])]

(***************************************************************************)
(* C12 (as claimed): the ok field of the returned object is true iff       *)
(* every item of the batch, repeated identifiers included, was finalized   *)
(* as a success.                                                           *)
(***************************************************************************)
C12_OverallOkIffAllSucceed ==
  psPc = "done" =>
    (psRet[1].ok <=> \A p \in 1..Len(psDone) : psDone[p].ok)

(***************************************************************************)
(* agents.human-escalation                                                 *)
(***************************************************************************)
HEPayloads ==
  [data : {"d"}] \cup
  [data : {"d"}, resumeToken : {"", "RESUME-123", "INVALID-TOKEN"}]

\* the truthiness test of `!payload.resumeToken`: absent and "" are falsy
HasResumeToken(payload) ==
  "resumeToken" \in DOMAIN payload /\ payload.resumeToken # ""

\* payload.resumeToken !== "RESUME-123" decides the abort
IsValidResumeToken_Typo(t) == t = "RESUME-124"
IsValidResumeToken(t) == t = "RESUME-123"

\* humanEscalation.run: the returned object (durationMs left out), or the
\* error it raises
HumanEscalationRun(payload) ==
  IF ~HasResumeToken(payload)
    THEN [ok |-> FALSE, escalated |-> TRUE,
          message |-> "Escalated for review. Re-run with resumeToken to continue.",
          resumeToken |-> "RESUME-123"]
    ELSE IF ~IsValidResumeToken(payload.resumeToken)
      THEN [threw |-> "AbortTaskRunError", message |-> "Invalid resume token"]
      ELSE [ok |-> TRUE, resumed |-> TRUE]

\* one invocation of the task
HEInvoke(payload) ==
  /\ Len(heLog) < MaxInvocations
  /\ heLog' = Append(heLog, [in |-> payload, out |-> HumanEscalationRun(payload)])
  /\ UNCHANGED <<now, cbVars, psVars, hepVars, gdVars, pspVars, cbpVars, gdpVars, cliVars, taVars, trVars>>

NextHE == \E payload \in HEPayloads : HEInvoke(payload)

SpecHE == Init /\ [][NextHE]_vars

Escalated(out) == "escalated" \in DOMAIN out /\ out.escalated
Resumed(out) == "resumed" \in DOMAIN out /\ out.resumed
Raised(out) == "threw" \in DOMAIN out

(***************************************************************************)
(* C4 (as claimed): when one token is presented in two resume invocations  *)
(* and the first returns {ok: true, resumed: true}, the second fails with  *)
(* the token-already-used error; no token is resolved twice.               *)
(***************************************************************************)
C4_TokenSingleUse ==
  \A i, j \in 1..Len(heLog) :
    ( /\ i < j
      /\ HasResumeToken(heLog[i].in)
      /\ HasResumeToken(heLog[j].in)
      /\ heLog[i].in.resumeToken = heLog[j].in.resumeToken
      /\ Resumed(heLog[i].out) )
    => /\ Raised(heLog[j].out)
       /\ ~Resumed(heLog[j].out)

(***************************************************************************)
(* C7: an invocation without a resume token returns {ok: false,            *)
(* escalated: true, resumeToken: T}, and a later invocation that carries   *)
(* this T returns {ok: true, resumed: true}.                               *)
(***************************************************************************)
C7_RoundTrip ==
  \A i \in 1..Len(heLog) :
    ~HasResumeToken(heLog[i].in) =>
      /\ Escalated(heLog[i].out)
      /\ heLog[i].out.ok = FALSE
      /\ heLog[i].out.resumeToken # ""
      /\ \A j \in (i + 1)..Len(heLog) :
           ( /\ HasResumeToken(heLog[j].in)
             /\ heLog[j].in.resumeToken = heLog[i].out.resumeToken )
           => heLog[j].out = [ok |-> TRUE, resumed |-> TRUE]

\* an escalation followed by a resume with the token it returned
C7_Witness ==
  \E i, j \in 1..Len(heLog) :
    /\ i < j
    /\ Escalated(heLog[i].out)
    /\ HasResumeToken(heLog[j].in)
    /\ heLog[j].in.resumeToken = heLog[i].out.resumeToken
    /\ Resumed(heLog[j].out)

(***************************************************************************)
(* C34 (as claimed): every invocation that returned resumed = true was     *)
(* given a token that an earlier invocation returned when it escalated.    *)
(***************************************************************************)
C34_ResumeOnlyIssuedToken ==
  \A j \in 1..Len(heLog) :
    Resumed(heLog[j].out) =>
      \E i \in 1..(j - 1) :
        /\ Escalated(heLog[i].out)
        /\ heLog[i].out.resumeToken = heLog[j].in.resumeToken

(***************************************************************************)
(* agents.graceful-degradation                                             *)
(***************************************************************************)

\* a string is a sequence of pieces: characters of the prompt and the
\* literal parts of the template strings
Prompt(n) == [i \in 1..n |-> "x"]

GDPayloads == {[prompt |-> Prompt(n)] : n \in 0..MaxPromptLen}

\* values of process.env.LLM_MOCK
GDEnvs == {"unset", "0", "1", "true"}

\* s.slice(0, n)
Slice(str, n) == SubSeq(str, 1, IF n < Len(str) THEN n ELSE Len(str))

\* const mock = process.env.LLM_MOCK === "1"
Mock(env) == env = "1"

\* callLLM(model, prompt, mock): the returned string, or the raised error
CallLLM(model, prompt, mock) ==
  IF mock
    THEN IF model = "primary"
           THEN [threw |-> TRUE, code |-> "PRIMARY_DOWN"]
           ELSE [threw |-> FALSE,
                 value |-> <<"fallback(">> \o Slice(prompt, SecondarySlice) \o <<")">>]
    ELSE [threw |-> TRUE, code |-> "Real LLM not implemented"]

\* `We're experiencing issues. Draft: ${payload.prompt.slice(0, 20)}` followed
\* by an ellipsis character
TemplateOutput_DraftOnly(prompt) == Slice(prompt, TemplateSlice)
TemplateOutput(prompt) ==
  <<"We're experiencing issues. Draft: ">> \o Slice(prompt, TemplateSlice) \o <<"...">>

\* the task is triggered
GDStart(payload, env) ==
  /\ gdPc \in {"idle", "done"}
  /\ gdPc' = "primary"
  /\ gdPayload' = payload
  /\ gdEnv' = env
  /\ gdCalls' = <<>>
  /\ gdRet' = <<>>
  /\ UNCHANGED <<now, cbVars, psVars, heVars, hepVars, pspVars, cbpVars, gdpVars, cliVars, taVars, trVars>>

\* try: await callLLM("primary", ...)
GDPrimary ==
  /\ gdPc = "primary"
  /\ gdCalls' = Append(gdCalls, "primary")
  /\ LET a == CallLLM("primary", gdPayload.prompt, Mock(gdEnv))
     IN IF ~a.threw
          THEN /\ gdRet' = <<[ok |-> TRUE, model |-> "primary", output |-> a.value]>>
               /\ gdPc' = "done"
          ELSE /\ gdPc' = "secondary"
               /\ UNCHANGED gdRet
  /\ UNCHANGED <<gdPayload, gdEnv>>
  /\ UNCHANGED <<now, cbVars, psVars, heVars, hepVars, pspVars, cbpVars, gdpVars, cliVars, taVars, trVars>>

\* catch: await callLLM("secondary", ...); its catch returns the template
\* the inner try/catch: the secondary's value is returned when the call
\* returns, the template when it throws
SecondaryResult_TemplateAnyway(b, prompt) ==
  [ok |-> TRUE, model |-> "template", degraded |-> TRUE,
   output |-> TemplateOutput(prompt)]
SecondaryResult(b, prompt) ==
  IF ~b.threw
    THEN [ok |-> TRUE, model |-> "secondary", degraded |-> TRUE,
          output |-> b.value]
    ELSE [ok |-> TRUE, model |-> "template", degraded |-> TRUE,
          output |-> TemplateOutput(prompt)]

GDSecondary ==
  /\ gdPc = "secondary"
  /\ gdCalls' = Append(gdCalls, "secondary")
  /\ LET b == CallLLM("secondary", gdPayload.prompt, Mock(gdEnv))
     IN gdRet' = <<SecondaryResult(b, gdPayload.prompt)>>
  /\ gdPc' = "done"
  /\ UNCHANGED <<gdPayload, gdEnv>>
  /\ UNCHANGED <<now, cbVars, psVars, heVars, hepVars, pspVars, cbpVars, gdpVars, cliVars, taVars, trVars>>

NextGD ==
  \/ \E payload \in GDPayloads, env \in GDEnvs : GDStart(payload, env)
  \/ GDPrimary
  \/ GDSecondary

SpecGD == Init /\ [][NextGD]_vars

\* both providers fail for the run's prompt and environment
AllTiersFail ==
  \A m \in {"primary", "secondary"} : CallLLM(m, gdPayload.prompt, Mock(gdEnv)).threw

(***************************************************************************)
(* C6: a run of the fallback chain ends with a returned object with        *)
(* ok = true and a non-empty output, never with a raised error; when both  *)
(* providers fail, the object has degraded = true and carries the          *)
(* template synthesized from the prompt.                                   *)
(***************************************************************************)
C6_FallbackNeverRaises ==
  /\ gdPc \in {"idle", "primary", "secondary", "done"}
  /\ gdPc = "done" =>
       /\ Len(gdRet) = 1
       /\ "threw" \notin DOMAIN gdRet[1]
       /\ gdRet[1].ok = TRUE
       /\ Len(gdRet[1].output) > 0
       /\ AllTiersFail =>
            /\ gdRet[1].degraded = TRUE
            /\ gdRet[1].model = "template"
            /\ gdCalls = <<"primary", "secondary">>

\* both providers failed, for an empty prompt
C6_Witness ==
  /\ gdPc = "done"
  /\ AllTiersFail
  /\ gdPayload.prompt = <<>>
  /\ gdRet[1].model = "template"

(***************************************************************************)
(* C24 (as claimed): escalation tokens are unique and never reused: any    *)
(* two escalation invocations return different resumeToken values.         *)
(***************************************************************************)
C24_TokensUnique ==
  \A i, j \in 1..Len(heLog) :
    (i < j /\ Escalated(heLog[i].out) /\ Escalated(heLog[j].out))
      => heLog[i].out.resumeToken # heLog[j].out.resumeToken

(***************************************************************************)
(* C22: the tiers are tried strictly in order and the first success is     *)
(* returned. The secondary is called only after the primary was called and *)
(* threw; the template is produced only after both providers were called   *)
(* and threw; a result from the primary ends the run after one call, and a *)
(* result from the secondary carries the secondary's value, with no        *)
(* template produced after it.                                             *)
(***************************************************************************)
C22_TiersInOrder ==
  LET a == CallLLM("primary", gdPayload.prompt, Mock(gdEnv))
      b == CallLLM("secondary", gdPayload.prompt, Mock(gdEnv))
  IN /\ gdCalls \in {<<>>, <<"primary">>, <<"primary", "secondary">>}
     /\ Len(gdCalls) = 2 => a.threw
     /\ gdPc = "secondary" => gdCalls = <<"primary">>
     /\ gdPc = "done" =>
          /\ gdRet[1].model = "primary" =>
               /\ gdCalls = <<"primary">>
               /\ ~a.threw /\ gdRet[1].output = a.value
          /\ gdRet[1].model = "secondary" =>
               /\ gdCalls = <<"primary", "secondary">>
               /\ a.threw /\ ~b.threw /\ gdRet[1].output = b.value
          /\ gdRet[1].model = "template" =>
               /\ gdCalls = <<"primary", "secondary">>
               /\ a.threw /\ b.threw
          /\ gdRet[1].model \in {"primary", "secondary", "template"}

\* the secondary succeeded after the primary failed, and its value was
\* returned
C22_Witness ==
  /\ gdPc = "done"
  /\ gdCalls = <<"primary", "secondary">>
  /\ gdRet[1].model = "secondary"
  /\ gdRet[1].output = <<"fallback(">> \o Slice(gdPayload.prompt, SecondarySlice) \o <<")">>
  /\ Len(gdPayload.prompt) > SecondarySlice

(***************************************************************************)
(* C17 (as claimed): an invocation that carries a resume credential, of    *)
(* whatever value, that is not the token the gate issues ends with the     *)
(* abort error "Invalid resume token" and returns neither resumed = true   *)
(* nor escalated = true.                                                   *)
(***************************************************************************)
C17_UnknownCredentialAborts ==
  \A i \in 1..Len(heLog) :
    ( /\ "resumeToken" \in DOMAIN heLog[i].in
      /\ heLog[i].in.resumeToken # "RESUME-123" )
    => /\ heLog[i].out =
            [threw |-> "AbortTaskRunError", message |-> "Invalid resume token"]
       /\ ~Resumed(heLog[i].out)
       /\ ~Escalated(heLog[i].out)

(***************************************************************************)
(* agents.human-escalation-prod                                            *)
(***************************************************************************)
HEPPayloads ==
  [data : {"d"}] \cup [data : {"d"}, resumeToken : UUIDs \cup {"bogus"}]

\* escalation.expiresAt < new Date()
IsExpired(expiresAt, t) == expiresAt < t

\* if (escalation.resolvedAt)
IsResolved(row) == row.resolvedAt # Null

\* the gate's clock: it moves by a millisecond, or by the lifetime of a token
HEPTick(d) ==
  /\ \/ d = 1 /\ (now < MaxGateTime \/ (now > TokenTTL /\ now < TokenTTL + MaxGateTime))
     \/ d = TokenTTL /\ now <= MaxGateTime
  /\ now' = now + d
  /\ UNCHANGED <<cbVars, psVars, heVars, hepVars, gdVars, pspVars, cbpVars, gdpVars, cliVars, taVars, trVars>>

\* the task is triggered; without a resume token it draws the token and
\* computes expiresAt, with one it goes to the lookup
HEPStart(p, payload, uuid) ==
  /\ hepPc[p] = "idle"
  /\ hepPayload' = [hepPayload EXCEPT ![p] = payload]
  /\ IF ~HasResumeToken(payload)
       THEN /\ hepToken' = [hepToken EXCEPT ![p] =
                 [token |-> uuid, expiresAt |-> now + TokenTTL]]
            /\ hepPc' = [hepPc EXCEPT ![p] = "create"]
       ELSE /\ hepPc' = [hepPc EXCEPT ![p] = "find"]
            /\ UNCHANGED hepToken
  /\ UNCHANGED <<escalationToken, hepFound, hepOut>>
  /\ UNCHANGED <<now, cbVars, psVars, heVars, gdVars, pspVars, cbpVars, gdpVars, cliVars, taVars, trVars>>

\* await prisma.escalationToken.create(...): token is @unique
HEPCreate(p) ==
  /\ hepPc[p] = "create"
  /\ IF hepToken[p].token \in DOMAIN escalationToken
       THEN /\ hepOut' = [hepOut EXCEPT ![p] =
                 <<[threw |-> "PrismaClientKnownRequestError",
                    message |-> "Unique constraint failed"]>>]
            /\ hepPc' = [hepPc EXCEPT ![p] = "done"]
            /\ UNCHANGED escalationToken
       ELSE /\ escalationToken' =
                 Assign(escalationToken, hepToken[p].token,
                        [taskRunId |-> p, data |-> hepPayload[p].data,
                         expiresAt |-> hepToken[p].expiresAt,
                         resolvedAt |-> Null, resolvedBy |-> Null])
            /\ hepPc' = [hepPc EXCEPT ![p] = "notify"]
            /\ UNCHANGED hepOut
  /\ UNCHANGED <<hepPayload, hepToken, hepFound>>
  /\ UNCHANGED <<now, cbVars, psVars, heVars, gdVars, pspVars, cbpVars, gdpVars, cliVars, taVars, trVars>>

\* await fetch(SLACK_WEBHOOK_URL, ...), then the return of the escalation
HEPNotify(p, rejects) ==
  /\ hepPc[p] = "notify"
  /\ hepOut' = [hepOut EXCEPT ![p] =
       IF rejects
         THEN <<[threw |-> "TypeError", message |-> "fetch failed"]>>
         ELSE <<[ok |-> FALSE, escalated |-> TRUE,
                 message |-> "Escalated for human review",
                 resumeToken |-> hepToken[p].token,
                 expiresAt |-> hepToken[p].expiresAt]>>]
  /\ hepPc' = [hepPc EXCEPT ![p] = "done"]
  /\ UNCHANGED <<escalationToken, hepPayload, hepToken, hepFound>>
  /\ UNCHANGED <<now, cbVars, psVars, heVars, gdVars, pspVars, cbpVars, gdpVars, cliVars, taVars, trVars>>

\* the table after a resume threw one of the three abort errors: the
\* throws come before the only write of the resume path
TableAfterAbort_Stamped(table, t, p) ==
  IF t \in DOMAIN table
    THEN [table EXCEPT ![t] = [@ EXCEPT !.resolvedAt = now, !.resolvedBy = p]]
    ELSE table
TableAfterAbort(table, t, p) == table

\* await prisma.escalationToken.findUnique(...) and the three checks on the
\* row that was read
HEPFind(p) ==
  /\ hepPc[p] = "find"
  /\ LET t == hepPayload[p].resumeToken
         abort(msg) ==
           /\ hepOut' = [hepOut EXCEPT ![p] =
                <<[threw |-> "AbortTaskRunError", message |-> msg]>>]
           /\ hepPc' = [hepPc EXCEPT ![p] = "done"]
           /\ escalationToken' = TableAfterAbort(escalationToken, t, p)
           /\ UNCHANGED hepFound
     IN IF t \notin DOMAIN escalationToken
          THEN abort("Invalid resume token")
          ELSE IF IsExpired(escalationToken[t].expiresAt, now)
            THEN abort("Resume token expired")
            ELSE IF IsResolved(escalationToken[t])
              THEN abort("Token already used")
              ELSE /\ hepFound' = [hepFound EXCEPT ![p] =
                        [found |-> TRUE, row |-> escalationToken[t],
                         at |-> now]]
                   /\ hepPc' = [hepPc EXCEPT ![p] = "update"]
                   /\ UNCHANGED <<hepOut, escalationToken>>
  /\ UNCHANGED <<hepPayload, hepToken>>
  /\ UNCHANGED <<now, cbVars, psVars, heVars, gdVars, pspVars, cbpVars, gdpVars, cliVars, taVars, trVars>>

\* await prisma.escalationToken.update(...), then the return of the resume
HEPUpdate(p) ==
  /\ hepPc[p] = "update"
  /\ escalationToken' =
       [escalationToken EXCEPT ![hepPayload[p].resumeToken] =
          [@ EXCEPT !.resolvedAt = now, !.resolvedBy = p]]
  /\ hepOut' = [hepOut EXCEPT ![p] =
       <<[ok |-> TRUE, resumed |-> TRUE, data |-> hepFound[p].row.data]>>]
  /\ hepPc' = [hepPc EXCEPT ![p] = "done"]
  /\ UNCHANGED <<hepPayload, hepToken, hepFound>>
  /\ UNCHANGED <<now, cbVars, psVars, heVars, gdVars, pspVars, cbpVars, gdpVars, cliVars, taVars, trVars>>

NextHEP ==
  \/ \E d \in {1, TokenTTL} : HEPTick(d)
  \/ \E p \in Invocations :
       \/ \E payload \in HEPPayloads, uuid \in UUIDs : HEPStart(p, payload, uuid)
       \/ HEPCreate(p)
       \/ \E rejects \in BOOLEAN : HEPNotify(p, rejects)
       \/ HEPFind(p)
       \/ HEPUpdate(p)

SpecHEP == Init /\ [][NextHEP]_vars

(***************************************************************************)
(* C35: a resume that fails leaves the table as it is. The step in which a *)
(* resume ends with an abort error changes no row; every step that changes *)
(* a stored row is the update of a resume that returns resumed = true, and *)
(* it changes resolvedAt and resolvedBy of the presented token only; so a  *)
(* row's resolvedBy is always an invocation that resumed.                  *)
(***************************************************************************)
C35_FailedResumeWritesNothing ==
  /\ [][\A p \in Invocations :
          (hepPc[p] = "find" /\ hepPc'[p] = "done")
            => /\ Raised(hepOut'[p][1])
               /\ escalationToken' = escalationToken]_vars
  /\ [][\A t \in DOMAIN escalationToken :
          escalationToken'[t] # escalationToken[t]
            => \E p \in Invocations :
                 /\ hepPc[p] = "update" /\ hepPc'[p] = "done"
                 /\ hepPayload[p].resumeToken = t
                 /\ Resumed(hepOut'[p][1])
                 /\ escalationToken' =
                      [escalationToken EXCEPT ![t] =
                         [@ EXCEPT !.resolvedAt = escalationToken'[t].resolvedAt,
                                   !.resolvedBy = p]]]_vars
  /\ [](\A t \in DOMAIN escalationToken :
          /\ escalationToken[t].resolvedBy # Null
                => /\ hepOut[escalationToken[t].resolvedBy] # <<>>
                   /\ Resumed(hepOut[escalationToken[t].resolvedBy][1])
          /\ escalationToken[t].resolvedAt # Null
                <=> escalationToken[t].resolvedBy # Null)

\* a token was resolved by one resume, and a later resume of it failed with
\* "Token already used" and left the row as the first one wrote it
C35_Witness ==
  \E t \in DOMAIN escalationToken : \E p, q \in Invocations :
    /\ p # q
    /\ escalationToken[t].resolvedBy = p
    /\ hepOut[p] # <<>> /\ Resumed(hepOut[p][1])
    /\ hepPc[q] = "done"
    /\ HasResumeToken(hepPayload[q]) /\ hepPayload[q].resumeToken = t
    /\ hepOut[q] = <<[threw |-> "AbortTaskRunError", message |-> "Token already used"]>>

\* the invocations that returned {ok: true, resumed: true} for token t
ResumedWith(t) ==
  {p \in Invocations :
     /\ HasResumeToken(hepPayload[p])
     /\ hepPayload[p].resumeToken = t
     /\ hepOut[p] # <<>>
     /\ Resumed(hepOut[p][1])}

(***************************************************************************)
(* C5 (as claimed): of the resume invocations that carry one token, at     *)
(* most one returns {ok: true, resumed: true}, whatever the interleaving.  *)
(***************************************************************************)
C5_ExactlyOneResume ==
  \A t \in DOMAIN escalationToken : Cardinality(ResumedWith(t)) <= 1

(***************************************************************************)
(* C20 (as claimed): a failing notification does not fail the escalation:  *)
(* the invocation that persisted a token ends by returning                 *)
(* {ok: false, escalated: true, resumeToken} with that token, so no token  *)
(* is stored without being returned to the caller.                         *)
(***************************************************************************)
C20_NotifyFailureStillEscalates ==
  \A t \in DOMAIN escalationToken :
    LET p == escalationToken[t].taskRunId
    IN hepPc[p] = "done" =>
         /\ ~Raised(hepOut[p][1])
         /\ Escalated(hepOut[p][1])
         /\ hepOut[p][1].ok = FALSE
         /\ hepOut[p][1].resumeToken = t

(***************************************************************************)
(* agents.partial-success-prod                                             *)
(***************************************************************************)
PSPItems == UNION {[1..n -> [id : ItemIds]] : n \in 0..MaxBatch}

PSPPayloads == [batchId : BatchIds, items : PSPItems]

\* const idempotencyKey = `batch:${batchId}:item:${item.id}`
IdempotencyKey(batchId, id) == "batch:" \o batchId \o ":item:" \o id

\* the key of the item run r is at
CurrentKey(r) ==
  IdempotencyKey(pspPayload[r].batchId, pspPayload[r].items[pspIdx[r]].id)

\* findUnique({where: {idempotencyKey}}) returns a row
Existing_Never(table, key) == FALSE
Existing(table, key) == key \in DOMAIN table

\* the number of invocations of processItem run r made for a key
InvOf(key, r) == IF <<key, r>> \in DOMAIN pspInv THEN pspInv[<<key, r>>] ELSE 0

\* a run's turn in the sequential specification: no other run is under way
NoOtherBatchRun(r) == \A q \in BatchRuns \ {r} : pspPc[q] \in {"idle", "done"}

\* the task is triggered with a payload
PSPStart(r, payload) ==
  /\ pspPc[r] = "idle"
  /\ pspPc' = [pspPc EXCEPT ![r] = "lookup"]
  /\ pspPayload' = [pspPayload EXCEPT ![r] = payload]
  /\ UNCHANGED <<batchItem, auditLog, pspIdx, pspAttempts, pspProc,
                 pspResults, pspOut, pspInv>>
  /\ UNCHANGED <<now, cbVars, psVars, heVars, hepVars, gdVars, cbpVars, gdpVars, cliVars, taVars, trVars>>

\* loop head: await findUnique; a row found is copied into results and the
\* loop continues, otherwise the run enters retry.onThrow
PSPLookup(r) ==
  /\ pspPc[r] = "lookup"
  /\ pspIdx[r] <= Len(pspPayload[r].items)
  /\ LET key == CurrentKey(r)
         id == pspPayload[r].items[pspIdx[r]].id
     IN IF Existing(batchItem, key)
          THEN /\ pspResults' = [pspResults EXCEPT ![r] =
                    Assign(@, id, [ok |-> batchItem[key].success,
                                   attempts |-> batchItem[key].attempts,
                                   reason |-> batchItem[key].reason,
                                   cached |-> TRUE])]
               /\ pspIdx' = [pspIdx EXCEPT ![r] = @ + 1]
               /\ UNCHANGED <<pspPc, pspAttempts>>
          ELSE /\ pspPc' = [pspPc EXCEPT ![r] = "retry"]
               /\ pspAttempts' = [pspAttempts EXCEPT ![r] = 0]
               /\ UNCHANGED <<pspResults, pspIdx>>
  /\ UNCHANGED <<batchItem, auditLog, pspPayload, pspProc, pspOut, pspInv>>
  /\ UNCHANGED <<now, cbVars, psVars, heVars, hepVars, gdVars, cbpVars, gdpVars, cliVars, taVars, trVars>>

\* one invocation of processItem inside retry.onThrow; when the retry is
\* over, processResult is computed
PSPAttempt(r, throws) ==
  /\ pspPc[r] = "retry"
  /\ pspAttempts' = [pspAttempts EXCEPT ![r] = @ + 1]
  /\ pspInv' = Assign(pspInv, <<CurrentKey(r), r>>, InvOf(CurrentKey(r), r) + 1)
  /\ IF ~throws
       THEN /\ pspProc' = [pspProc EXCEPT ![r] =
                 [ok |-> TRUE, output |-> [processed |-> TRUE]]]
            /\ pspPc' = [pspPc EXCEPT ![r] = "store"]
       ELSE IF RetryAgain(pspAttempts'[r], ItemMaxAttempts)
         THEN UNCHANGED <<pspProc, pspPc>>
         ELSE /\ pspProc' = [pspProc EXCEPT ![r] =
                   [ok |-> FALSE, reason |-> "PROCESSING_ERROR"]]
              /\ pspPc' = [pspPc EXCEPT ![r] = "store"]
  /\ UNCHANGED <<batchItem, auditLog, pspPayload, pspIdx, pspResults, pspOut>>
  /\ UNCHANGED <<now, cbVars, psVars, heVars, hepVars, gdVars, cbpVars, gdpVars, cliVars, taVars, trVars>>

\* await prisma.batchItem.create(...): idempotencyKey is @unique, so the
\* create of an existing key raises and ends the run; otherwise the row is
\* inserted and results[item.id] is written (the output column is written
\* and never read back, so the row of the model leaves it out)
PSPStore(r) ==
  /\ pspPc[r] = "store"
  /\ LET key == CurrentKey(r)
         id == pspPayload[r].items[pspIdx[r]].id
     IN IF key \in DOMAIN batchItem
          THEN /\ pspOut' = [pspOut EXCEPT ![r] =
                    <<[threw |-> "PrismaClientKnownRequestError",
                       message |-> "Unique constraint failed"]>>]
               /\ pspPc' = [pspPc EXCEPT ![r] = "done"]
               /\ UNCHANGED <<batchItem, pspResults, pspIdx>>
          ELSE /\ batchItem' = Assign(batchItem, key,
                    [batchId |-> pspPayload[r].batchId, itemId |-> id,
                     success |-> pspProc[r].ok, attempts |-> pspAttempts[r],
                     reason |-> IF "reason" \in DOMAIN pspProc[r]
                                  THEN pspProc[r].reason ELSE NullReason])
               /\ pspResults' = [pspResults EXCEPT ![r] =
                    Assign(@, id,
                      IF pspProc[r].ok
                        THEN [ok |-> TRUE, output |-> pspProc[r].output,
                              attempts |-> pspAttempts[r]]
                        ELSE [ok |-> FALSE, reason |-> pspProc[r].reason,
                              attempts |-> pspAttempts[r]])]
               /\ pspIdx' = [pspIdx EXCEPT ![r] = @ + 1]
               /\ pspPc' = [pspPc EXCEPT ![r] = "lookup"]
               /\ UNCHANGED pspOut
  /\ UNCHANGED <<auditLog, pspPayload, pspAttempts, pspProc, pspInv>>
  /\ UNCHANGED <<now, cbVars, psVars, heVars, hepVars, gdVars, cbpVars, gdpVars, cliVars, taVars, trVars>>

\* the loop is over: count, write the audit row and return
PSPReturn(r) ==
  /\ pspPc[r] = "lookup"
  /\ pspIdx[r] > Len(pspPayload[r].items)
  /\ LET okCount == OkValues(pspResults[r])
         total == Len(pspPayload[r].items)
         failedCount == total - okCount
     IN /\ auditLog' = auditLog \cup
             {[runId |-> pspPayload[r].batchId, total |-> total,
               okCount |-> okCount, failedCount |-> failedCount]}
        /\ pspOut' = [pspOut EXCEPT ![r] =
             <<[ok |-> failedCount = 0, batchId |-> pspPayload[r].batchId,
                total |-> total, okCount |-> okCount,
                failedCount |-> failedCount, results |-> pspResults[r]]>>]
  /\ pspPc' = [pspPc EXCEPT ![r] = "done"]
  /\ UNCHANGED <<batchItem, pspPayload, pspIdx, pspAttempts, pspProc,
                 pspResults, pspInv>>
  /\ UNCHANGED <<now, cbVars, psVars, heVars, hepVars, gdVars, cbpVars, gdpVars, cliVars, taVars, trVars>>

PSPStep(r) ==
  \/ \E payload \in PSPPayloads : PSPStart(r, payload)
  \/ PSPLookup(r)
  \/ \E throws \in BOOLEAN : PSPAttempt(r, throws)
  \/ PSPStore(r)
  \/ PSPReturn(r)

\* runs of the task that overlap
NextPSP == \E r \in BatchRuns : PSPStep(r)

SpecPSP == Init /\ [][NextPSP]_vars

\* runs of the task that follow each other
NextPSPSeq == \E r \in BatchRuns : NoOtherBatchRun(r) /\ PSPStep(r)

SpecPSPSeq == Init /\ [][NextPSPSeq]_vars

\* the reason a result carries; a success carries none, which the store
\* keeps as null
ReasonOf(res) == IF "reason" \in DOMAIN res THEN res.reason ELSE NullReason

\* all invocations of processItem made for a key
TotalInv(key) == InvOf(key, 1) + InvOf(key, 2)

\* C13: idempotent replay. When runs follow each other, an item that an
\* earlier run finalized is returned by a later run with the success flag,
\* attempt count and reason that were stored and that the earlier run
\* returned, and once an item is finalized its operation is never invoked
\* again: the invocations made for a stored key are exactly the stored
\* attempt count.
C13_IdempotentReplay ==
  /\ \A key \in DOMAIN batchItem : TotalInv(key) = batchItem[key].attempts
  /\ \A r \in BatchRuns : \A id \in DOMAIN pspResults[r] :
       LET res == pspResults[r][id]
           key == IdempotencyKey(pspPayload[r].batchId, id)
       IN "cached" \in DOMAIN res =>
            /\ key \in DOMAIN batchItem
            /\ res.ok = batchItem[key].success
            /\ res.attempts = batchItem[key].attempts
            /\ res.reason = batchItem[key].reason
            /\ \A q \in BatchRuns \ {r} :
                 ( /\ pspPayload[q].batchId = pspPayload[r].batchId
                   /\ id \in DOMAIN pspResults[q]
                   /\ "cached" \notin DOMAIN pspResults[q][id] )
                 => /\ pspResults[q][id].ok = res.ok
                    /\ pspResults[q][id].attempts = res.attempts
                    /\ ReasonOf(pspResults[q][id]) = res.reason

\* a rerun has returned, for an item that the first run gave up on after
\* three attempts, the stored failure without invoking the operation
C13_Witness ==
  \E r \in BatchRuns : \E q \in BatchRuns \ {r} :
    /\ pspPc[r] = "done" /\ pspPc[q] = "done"
    /\ pspPayload[r] = pspPayload[q]
    /\ pspOut[r] # <<>> /\ "results" \in DOMAIN pspOut[r][1]
    /\ \E id \in DOMAIN pspOut[r][1].results :
         LET key == IdempotencyKey(pspPayload[r].batchId, id)
         IN /\ pspOut[r][1].results[id] =
                 [ok |-> FALSE, attempts |-> ItemMaxAttempts,
                  reason |-> "PROCESSING_ERROR", cached |-> TRUE]
            /\ InvOf(key, r) = 0
            /\ InvOf(key, q) = ItemMaxAttempts

\* C14: under overlapping runs every idempotency key is processed at most
\* once: only one run invokes the operation for a key and no run ends with
\* an error raised by the store.
C14_ProcessedAtMostOnce ==
  /\ \A k \in DOMAIN pspInv : \A j \in DOMAIN pspInv :
       k[1] = j[1] => k[2] = j[2]
  /\ \A r \in BatchRuns :
       pspOut[r] # <<>> => "threw" \notin DOMAIN pspOut[r][1]

(***************************************************************************)
(* C16 (as claimed): a resume passes the validation only at a time before  *)
(* expiresAt: every invocation that got past the checks made them at       *)
(* now < expiresAt, so a resume at now >= expiresAt, now = expiresAt        *)
(* included, ends with the token-expired error.                            *)
(***************************************************************************)
C16_ExpiredFromExpiresAt ==
  \A p \in Invocations :
    hepFound[p].found =>
      /\ hepFound[p].at < hepFound[p].row.expiresAt
      /\ hepFound[p].row.resolvedAt = Null

(***************************************************************************)
(* agents.circuit-breaker-prod                                             *)
(***************************************************************************)
CBPPayloads ==
  [serviceName : {"s1"}, endpoint : {"e"}] \cup
  [serviceName : {"s1"}, endpoint : {"e"}, cooldownMs : 1..MaxCooldown]

\* const { maxConsecutive = 5, cooldownMs = 30000 } = payload
ThresholdOf(payload) ==
  IF "maxConsecutive" \in DOMAIN payload
    THEN payload.maxConsecutive ELSE ProdMaxConsecutive

CooldownOf(payload) ==
  IF "cooldownMs" \in DOMAIN payload THEN payload.cooldownMs ELSE ProdCooldown

\* const stateKey = `circuit:${serviceName}`; const openKey = `${stateKey}:open`
StateKey(serviceName) == "circuit:" \o serviceName
OpenKey(serviceName) == StateKey(serviceName) \o ":open"

\* await redis.get(openKey) || 0: a key set with {px} is gone once its
\* lifetime is over
RedisGetOpen(key, t) ==
  IF key \in DOMAIN redis /\ t < redis[key].expires THEN redis[key].value ELSE 0

\* the counter under stateKey; a missing key counts as 0 for INCR
RedisCounter(key) == IF key \in DOMAIN redis THEN redis[key] ELSE 0

\* the rejection of an open circuit
OpenError(serviceName) ==
  [threw |-> "Error", message |-> "Circuit breaker OPEN for " \o serviceName]

\* the task is triggered with a payload
CBPStart(p, payload) ==
  /\ cbpPc[p] \in {"idle", "done"}
  /\ cbpPc' = [cbpPc EXCEPT ![p] = "check"]
  /\ cbpPayload' = [cbpPayload EXCEPT ![p] = payload]
  /\ cbpChk' = [cbpChk EXCEPT ![p] = [at |-> 0, until |-> 0]]
  /\ cbpCons' = [cbpCons EXCEPT ![p] = 0]
  /\ cbpOut' = [cbpOut EXCEPT ![p] = <<>>]
  /\ UNCHANGED <<redis, cbState>>
  /\ UNCHANGED <<now, cbVars, psVars, heVars, hepVars, gdVars, pspVars, gdpVars, cliVars, taVars, trVars>>

\* the open check: read openKey and compare with Date.now(); while open the
\* run throws
CBPCheck(p) ==
  /\ cbpPc[p] = "check"
  /\ LET openedUntilRead == RedisGetOpen(OpenKey(cbpPayload[p].serviceName), now)
     IN /\ cbpChk' = [cbpChk EXCEPT ![p] = [at |-> now, until |-> openedUntilRead]]
        /\ IF now < openedUntilRead
             THEN /\ cbpOut' = [cbpOut EXCEPT ![p] =
                       <<OpenError(cbpPayload[p].serviceName)>>]
                  /\ cbpPc' = [cbpPc EXCEPT ![p] = "done"]
             ELSE /\ cbpPc' = [cbpPc EXCEPT ![p] = "fetch"]
                  /\ UNCHANGED cbpOut
  /\ UNCHANGED <<redis, cbState, cbpPayload, cbpCons>>
  /\ UNCHANGED <<now, cbVars, psVars, heVars, hepVars, gdVars, pspVars, gdpVars, cliVars, taVars, trVars>>

\* retry.fetch has settled. Success: delete the counter, upsert the row and
\* return; failure: control passes to the catch block
CBPFetch(p, responseOk) ==
  /\ cbpPc[p] = "fetch"
  /\ LET svc == cbpPayload[p].serviceName
     IN IF responseOk
          THEN /\ redis' = [k \in DOMAIN redis \ {StateKey(svc)} |-> redis[k]]
               /\ cbState' = Assign(cbState, svc,
                    [consecutiveFails |-> 0,
                     openedUntil |-> IF svc \in DOMAIN cbState
                                       THEN cbState[svc].openedUntil ELSE Null])
               /\ cbpOut' = [cbpOut EXCEPT ![p] =
                    <<[ok |-> TRUE, serviceName |-> svc, status |-> StatusOk]>>]
               /\ cbpPc' = [cbpPc EXCEPT ![p] = "done"]
          ELSE /\ cbpPc' = [cbpPc EXCEPT ![p] = "incr"]
               /\ UNCHANGED <<redis, cbState, cbpOut>>
  /\ UNCHANGED <<cbpPayload, cbpChk, cbpCons>>
  /\ UNCHANGED <<now, cbVars, psVars, heVars, hepVars, gdVars, pspVars, gdpVars, cliVars, taVars, trVars>>

\* catch: INCR the counter, upsert the row; below the threshold the error
\* is rethrown
CBPIncr(p) ==
  /\ cbpPc[p] = "incr"
  /\ LET svc == cbpPayload[p].serviceName
         consecutiveNew == RedisCounter(StateKey(svc)) + 1
     IN /\ consecutiveNew <= MaxFailures
        /\ redis' = Assign(redis, StateKey(svc), consecutiveNew)
        /\ cbpCons' = [cbpCons EXCEPT ![p] = consecutiveNew]
        /\ cbState' = Assign(cbState, svc,
             [consecutiveFails |-> consecutiveNew,
              openedUntil |-> IF svc \in DOMAIN cbState
                                THEN cbState[svc].openedUntil ELSE Null])
        /\ IF consecutiveNew >= ThresholdOf(cbpPayload[p])
             THEN /\ cbpPc' = [cbpPc EXCEPT ![p] = "open"]
                  /\ UNCHANGED cbpOut
             ELSE /\ cbpOut' = [cbpOut EXCEPT ![p] =
                       <<[threw |-> "Error", message |-> "HTTP 502"]>>]
                  /\ cbpPc' = [cbpPc EXCEPT ![p] = "done"]
  /\ UNCHANGED <<cbpPayload, cbpChk>>
  /\ UNCHANGED <<now, cbVars, psVars, heVars, hepVars, gdVars, pspVars, gdpVars, cliVars, taVars, trVars>>

\* the threshold is reached: set openKey with its lifetime, update the row,
\* post the alert and rethrow; a rejected alert replaces the error
CBPOpen(p, rejects) ==
  /\ cbpPc[p] = "open"
  /\ LET svc == cbpPayload[p].serviceName
         openUntil == now + CooldownOf(cbpPayload[p])
     IN /\ redis' = Assign(redis, OpenKey(svc),
             [value |-> openUntil, expires |-> now + CooldownOf(cbpPayload[p])])
        /\ cbState' = [cbState EXCEPT ![svc].openedUntil = openUntil]
  /\ cbpOut' = [cbpOut EXCEPT ![p] =
       IF rejects
         THEN <<[threw |-> "TypeError", message |-> "fetch failed"]>>
         ELSE <<[threw |-> "Error", message |-> "HTTP 502"]>>]
  /\ cbpPc' = [cbpPc EXCEPT ![p] = "done"]
  /\ UNCHANGED <<cbpPayload, cbpChk, cbpCons>>
  /\ UNCHANGED <<now, cbVars, psVars, heVars, hepVars, gdVars, pspVars, gdpVars, cliVars, taVars, trVars>>

NextCBP ==
  \/ TickConc
  \/ \E p \in BreakerCalls :
       \/ \E payload \in CBPPayloads : CBPStart(p, payload)
       \/ CBPCheck(p)
       \/ \E responseOk \in BOOLEAN : CBPFetch(p, responseOk)
       \/ CBPIncr(p)
       \/ \E rejects \in BOOLEAN : CBPOpen(p, rejects)

SpecCBP == Init /\ [][NextCBP]_vars

(***************************************************************************)
(* C18 (as claimed): an open circuit is reported as a structured fail-fast *)
(* result and never as a raised error: a call whose open check ran at      *)
(* now < openUntil ends with a returned value with ok = FALSE.             *)
(***************************************************************************)
C18_OpenIsStructuredResult ==
  \A p \in BreakerCalls :
    (cbpOut[p] # <<>> /\ cbpChk[p].at < cbpChk[p].until)
      => /\ ~Raised(cbpOut[p][1])
         /\ cbpOut[p][1].ok = FALSE

(***************************************************************************)
(* agents.graceful-degradation-prod                                        *)
(***************************************************************************)
GDPPayloads == {[prompt |-> Prompt(n)] : n \in 0..MaxProdPromptLen}

\* what a provider request ends with: an error, or a response whose text
\* is missing (read as "") or present
ProviderResponses == {"throws", "", "answer"}

ProdTemplateSlice == 100

\* generateTemplate(prompt)
GenerateTemplate(prompt) ==
  <<"We're experiencing high demand. Here's a quick summary based on your request: \"">>
    \o Slice(prompt, ProdTemplateSlice)
    \o <<"...\"\n\nA detailed response will be generated shortly. Please check back in a few minutes or contact support.">>

\* the row trackUsage creates (token counts, cost and latency left out)
UsageRow(model, provider, degraded) ==
  [taskRunId |-> "TODO_GET_FROM_CONTEXT", model |-> model,
   provider |-> provider, degraded |-> degraded]

\* the object the primary tier returns
PrimaryResult_NoFlag(output) ==
  [ok |-> TRUE, model |-> "gpt-4-turbo-preview", output |-> output]
PrimaryResult(output) ==
  [ok |-> TRUE, model |-> "gpt-4-turbo-preview", output |-> output,
   degraded |-> FALSE]

\* the task is triggered
GDPStart(payload) ==
  /\ gdpPc \in {"idle", "done"}
  /\ gdpPc' = "primary"
  /\ gdpPayload' = payload
  /\ gdpCalls' = <<>>
  /\ gdpRet' = <<>>
  /\ UNCHANGED llmUsage
  /\ UNCHANGED <<now, cbVars, psVars, heVars, hepVars, gdVars, pspVars, cbpVars, cliVars, taVars, trVars>>

\* the outer try: the OpenAI request, trackUsage and the return; an error
\* of either await passes control to the catch
GDPPrimary(resp, trackFails) ==
  /\ gdpPc = "primary"
  /\ gdpCalls' = Append(gdpCalls, [tier |-> "primary", resp |-> resp])
  /\ IF resp = "throws" \/ trackFails
       THEN /\ gdpPc' = "secondary"
            /\ UNCHANGED <<llmUsage, gdpRet>>
       ELSE /\ llmUsage' = llmUsage \cup
                 {UsageRow("gpt-4-turbo-preview", "openai", FALSE)}
            /\ gdpRet' = <<PrimaryResult(resp)>>
            /\ gdpPc' = "done"
  /\ UNCHANGED gdpPayload
  /\ UNCHANGED <<now, cbVars, psVars, heVars, hepVars, gdVars, pspVars, cbpVars, cliVars, taVars, trVars>>

\* the inner try: the Anthropic request, trackUsage and the return
GDPSecondary(resp, trackFails) ==
  /\ gdpPc = "secondary"
  /\ gdpCalls' = Append(gdpCalls, [tier |-> "secondary", resp |-> resp])
  /\ IF resp = "throws" \/ trackFails
       THEN /\ gdpPc' = "template"
            /\ UNCHANGED <<llmUsage, gdpRet>>
       ELSE /\ llmUsage' = llmUsage \cup
                 {UsageRow("claude-3-sonnet", "anthropic", TRUE)}
            /\ gdpRet' = <<[ok |-> TRUE, model |-> "claude-3-sonnet",
                            output |-> resp, degraded |-> TRUE]>>
            /\ gdpPc' = "done"
  /\ UNCHANGED gdpPayload
  /\ UNCHANGED <<now, cbVars, psVars, heVars, hepVars, gdVars, pspVars, cbpVars, cliVars, taVars, trVars>>

\* the inner catch: the template, trackUsage (outside any try) and the return
GDPTemplate(trackFails) ==
  /\ gdpPc = "template"
  /\ gdpCalls' = Append(gdpCalls, [tier |-> "template", resp |-> "local"])
  /\ IF trackFails
       THEN /\ gdpRet' = <<[threw |-> "PrismaClientKnownRequestError",
                            message |-> "lLMUsage.create failed"]>>
            /\ UNCHANGED llmUsage
       ELSE /\ llmUsage' = llmUsage \cup {UsageRow("template", "local", TRUE)}
            /\ gdpRet' = <<[ok |-> TRUE, model |-> "template",
                            output |-> GenerateTemplate(gdpPayload.prompt),
                            degraded |-> TRUE]>>
  /\ gdpPc' = "done"
  /\ UNCHANGED gdpPayload
  /\ UNCHANGED <<now, cbVars, psVars, heVars, hepVars, gdVars, pspVars, cbpVars, cliVars, taVars, trVars>>

NextGDP ==
  \/ \E payload \in GDPPayloads : GDPStart(payload)
  \/ \E resp \in ProviderResponses, trackFails \in BOOLEAN : GDPPrimary(resp, trackFails)
  \/ \E resp \in ProviderResponses, trackFails \in BOOLEAN : GDPSecondary(resp, trackFails)
  \/ \E trackFails \in BOOLEAN : GDPTemplate(trackFails)

SpecGDP == Init /\ [][NextGDP]_vars

\* the model name a tier reports
ModelOfTier(tier) ==
  CASE tier = "primary" -> "gpt-4-turbo-preview"
    [] tier = "secondary" -> "claude-3-sonnet"
    [] OTHER -> "template"

(***************************************************************************)
(* C37 (as claimed): whatever trackUsage does, a finished call has not     *)
(* raised, and when the request of a provider succeeded, the first such    *)
(* provider is the last tier invoked and its response is the one returned. *)
(***************************************************************************)
C37_TrackingFailureHarmless ==
  (gdpPc = "done" /\ gdpRet # <<>>) =>
    /\ ~Raised(gdpRet[1])
    /\ \A i \in 1..Len(gdpCalls) :
         ( /\ gdpCalls[i].tier \in {"primary", "secondary"}
           /\ gdpCalls[i].resp # "throws"
           /\ \A j \in 1..(i - 1) : gdpCalls[j].resp = "throws" )
         => /\ Len(gdpCalls) = i
            /\ gdpRet[1].model = ModelOfTier(gdpCalls[i].tier)
            /\ gdpRet[1].output = gdpCalls[i].resp

\* both fallback chains, the demo task and the production task
NextGDAll == NextGD \/ NextGDP

SpecGDAll == Init /\ [][NextGDAll]_vars

\* the models a non-primary path reports
NonPrimaryModels == {"secondary", "template", "claude-3-sonnet"}
PrimaryModels == {"primary", "gpt-4-turbo-preview"}

\* the results the two chains have returned
ChainResults ==
  {gdRet[i] : i \in 1..Len(gdRet)} \cup
  {gdpRet[i] : i \in {j \in 1..Len(gdpRet) : ~Raised(gdpRet[j])}}

CLIRunners == {"test-cli.ts", "test-standalone.ts"}

AllPatterns ==
  <<"circuitBreaker", "partialSuccess", "humanEscalation", "gracefulDegradation">>

\* values of process.argv[2]
CLIArgs ==
  {"unset", "all", "circuit-breaker", "circuitBreaker", "partial-success",
   "partialSuccess", "human-escalation", "humanEscalation",
   "graceful-degradation", "gracefulDegradation", "bogus"}

\* const pattern = process.argv[2] || "all"
PatternOf(arg) == IF arg = "unset" THEN "all" ELSE arg

\* the switch: the pattern functions a pattern name runs; <<>> is the
\* default branch
Selected(pattern) ==
  CASE pattern = "all" -> AllPatterns
    [] pattern \in {"circuit-breaker", "circuitBreaker"} -> <<"circuitBreaker">>
    [] pattern \in {"partial-success", "partialSuccess"} -> <<"partialSuccess">>
    [] pattern \in {"human-escalation", "humanEscalation"} -> <<"humanEscalation">>
    [] pattern \in {"graceful-degradation", "gracefulDegradation"} -> <<"gracefulDegradation">>
    [] OTHER -> <<>>

\* whether the awaited pattern can reject. test-cli.ts awaits task.run of the
\* SDK's task object; the standalone copies catch every error of their
\* simulated calls, and the runner passes them payloads they accept
CanRaise(runner) == runner = "test-cli.ts"

\* Object.values(results).filter(r => r.success).length
SuccessCount(res) == Cardinality({k \in DOMAIN res : res[k].success})

\* the exit code: runAll calls process.exit; after a single pattern main
\* ends and the process exits with the default code
ExitCode(pattern, res) ==
  IF pattern = "all"
    THEN IF SuccessCount(res) = Cardinality(DOMAIN res) THEN 0 ELSE 1
    ELSE 0

\* the runner is started; an unknown pattern exits with code 1 at once
CLIStart(runner, arg) ==
  /\ cliPc \in {"idle", "exited"}
  /\ cliRunner' = runner
  /\ cliArg' = arg
  /\ cliResults' = [k \in {} |-> 0]
  /\ cliQueue' = Selected(PatternOf(arg))
  /\ IF Selected(PatternOf(arg)) = <<>>
       THEN cliPc' = "exited" /\ cliExit' = 1
       ELSE cliPc' = "running" /\ cliExit' = Null
  /\ UNCHANGED <<now, cbVars, psVars, heVars, hepVars, gdVars, pspVars, cbpVars, gdpVars, taVars, trVars>>

\* one run<Pattern>() call: its try/catch turns a rejection into
\* {success: false}
CLIRunPattern(raises) ==
  /\ cliPc = "running"
  /\ cliQueue # <<>>
  /\ raises => CanRaise(cliRunner)
  /\ cliResults' = Assign(cliResults, Head(cliQueue), [success |-> ~raises])
  /\ cliQueue' = Tail(cliQueue)
  /\ UNCHANGED <<cliPc, cliRunner, cliArg, cliExit>>
  /\ UNCHANGED <<now, cbVars, psVars, heVars, hepVars, gdVars, pspVars, cbpVars, gdpVars, taVars, trVars>>

\* the process ends
CLIExit ==
  /\ cliPc = "running"
  /\ cliQueue = <<>>
  /\ cliExit' = ExitCode(PatternOf(cliArg), cliResults)
  /\ cliPc' = "exited"
  /\ UNCHANGED <<cliRunner, cliArg, cliQueue, cliResults>>
  /\ UNCHANGED <<now, cbVars, psVars, heVars, hepVars, gdVars, pspVars, cbpVars, gdpVars, taVars, trVars>>

NextCLI ==
  \/ \E runner \in CLIRunners, arg \in CLIArgs : CLIStart(runner, arg)
  \/ \E raises \in BOOLEAN : CLIRunPattern(raises)
  \/ CLIExit

SpecCLI == Init /\ [][NextCLI]_vars

(***************************************************************************)
(* C25 (as claimed): a runner that executed patterns exits with code 0     *)
(* exactly when every pattern it executed succeeded and with code 1 when   *)
(* one of them failed, for `all` and for a single named pattern.           *)
(***************************************************************************)
C25_ExitCodeReflectsSuccess ==
  (cliPc = "exited" /\ DOMAIN cliResults # {}) =>
    /\ cliExit = 0 <=> \A k \in DOMAIN cliResults : cliResults[k].success
    /\ cliExit = 1 <=> \E k \in DOMAIN cliResults : ~cliResults[k].success

(***************************************************************************)
(* test-standalone.ts: the standalone copies of the patterns and the       *)
(* process that runs them. testCircuitBreaker and testPartialSuccess are   *)
(* statement for statement the bodies of the tasks, so the actions of the  *)
(* tasks (run 1 of the breaker) stand for them, on the process's own       *)
(* module-level consecutive / openedUntil.                                 *)
(***************************************************************************)

\* payload.resumeToken !== "RESUME-123" in the standalone copy
IsStandaloneToken_Other(t) == t = "RESUME-124"
IsStandaloneToken(t) == t = "RESUME-123"

\* testHumanEscalation: the returned object (durationMs left out), or the
\* error it raises
TestHumanEscalation(payload) ==
  IF ~HasResumeToken(payload)
    THEN [ok |-> FALSE, escalated |-> TRUE,
          message |-> "Escalated for review. Re-run with resumeToken to continue.",
          resumeToken |-> "RESUME-123"]
    ELSE IF ~IsStandaloneToken(payload.resumeToken)
      THEN [threw |-> "Error", message |-> "Invalid resume token"]
      ELSE [ok |-> TRUE, resumed |-> TRUE]

\* const mock = process.env.LLM_MOCK !== "0"
StandaloneMock(env) == env # "0"

\* testGracefulDegradation: the returned object (durationMs left out); its
\* callLLM is the one of the task
TestGracefulDegradation(payload, env) ==
  LET a == CallLLM("primary", payload.prompt, StandaloneMock(env))
      b == CallLLM("secondary", payload.prompt, StandaloneMock(env))
  IN IF ~a.threw
       THEN [ok |-> TRUE, model |-> "primary", output |-> a.value]
       ELSE IF ~b.threw
         THEN [ok |-> TRUE, model |-> "secondary", degraded |-> TRUE,
               output |-> b.value]
         ELSE [ok |-> TRUE, model |-> "template", degraded |-> TRUE,
               output |-> TemplateOutput(payload.prompt)]

\* the tasks whose standalone copy is written differently, run side by side
NextCopies == NextGD \/ NextHE

SpecCopies == Init /\ [][NextCopies]_vars

(***************************************************************************)
(* C36 (as claimed): for the payload and the LLM_MOCK a task ran with, the *)
(* standalone copy returns the fields the task returned (durationMs        *)
(* apart), and raises where the task raised, with the same message.        *)
(***************************************************************************)
C36_StandaloneEquivalent ==
  /\ (gdPc = "done" /\ gdRet # <<>>)
       => gdRet[1] = TestGracefulDegradation(gdPayload, gdEnv)
  /\ \A i \in 1..Len(heLog) :
       LET task == heLog[i].out
           copy == TestHumanEscalation(heLog[i].in)
       IN IF Raised(task) \/ Raised(copy)
            THEN Raised(task) /\ Raised(copy) /\ task.message = copy.message
            ELSE task = copy

\* the payloads of runCircuitBreaker, runPartialSuccess, runHumanEscalation
\* and runGracefulDegradation
RunnerBreakerPayload == [calls |-> MaxRunnerCalls, cooldownMs |-> 1]
RunnerItems == <<"a", "b">>
RunnerEscalation == [data |-> "d"]
RunnerPrompt == [prompt |-> Prompt(MaxPromptLen)]

\* runHumanEscalation: escalate, then resume with the token that came back;
\* the value is what the try block ends with, a raised error included
RunHumanEscalation ==
  LET result1 == TestHumanEscalation(RunnerEscalation)
  IN IF Raised(result1)
       THEN result1
       ELSE IF Escalated(result1) /\ result1.resumeToken # ""
         THEN TestHumanEscalation([data |-> RunnerEscalation.data,
                                   resumeToken |-> result1.resumeToken])
         ELSE result1

\* the command lines of the documented scripts (pnpm test, pnpm test:circuit
\* and so on), and one with an unknown pattern
SAArgs ==
  {"all", "circuit-breaker", "partial-success", "human-escalation",
   "graceful-degradation", "bogus"}

\* the process is started: its module state is fresh
SAStart(arg) ==
  /\ cliPc \in {"idle", "exited"}
  /\ cliRunner' = "test-standalone.ts"
  /\ cliArg' = arg
  /\ cliResults' = [k \in {} |-> 0]
  /\ cliQueue' = Selected(PatternOf(arg))
  /\ IF Selected(PatternOf(arg)) = <<>>
       THEN cliPc' = "exited" /\ cliExit' = 1
       ELSE cliPc' = "running" /\ cliExit' = Null
  /\ consecutive' = 0
  /\ openedUntil' = 0
  /\ cbPc' = [r \in Runs |-> "idle"]
  /\ cbPayload' = [r \in Runs |-> NoPayload]
  /\ cbI' = [r \in Runs |-> 0]
  /\ cbAttempt' = [r \in Runs |-> 0]
  /\ cbR' = [r \in Runs |-> NoR]
  /\ results' = [r \in Runs |-> <<>>]
  /\ cbRet' = [r \in Runs |-> <<>>]
  /\ cbCall' = [r \in Runs |-> NoCall]
  /\ cbHist' = [streak |-> 0, last |-> "none", openAtOk |-> 0,
                tripped |-> FALSE, prevStreak |-> 0]
  /\ psPc' = "idle"
  /\ psItems' = <<>>
  /\ psIdx' = 1
  /\ attempts' = 0
  /\ psResults' = <<>>
  /\ psRet' = <<>>
  /\ psTrace' = <<>>
  /\ psDone' = <<>>
  /\ UNCHANGED <<now, heVars, hepVars, gdVars, pspVars, cbpVars, gdpVars, taVars, trVars>>

\* the pattern function the runner is in
SAIn(pattern) ==
  /\ cliRunner = "test-standalone.ts"
  /\ cliPc = "running"
  /\ cliQueue # <<>>
  /\ Head(cliQueue) = pattern

\* run<Pattern>() returns: {success: true, result}, or {success: false,
\* error} from its catch
SARecord(raised) ==
  /\ cliResults' = Assign(cliResults, Head(cliQueue), [success |-> ~raised])
  /\ cliQueue' = Tail(cliQueue)
  /\ UNCHANGED <<cliPc, cliRunner, cliArg, cliExit>>
  /\ UNCHANGED <<now, cbVars, psVars, heVars, hepVars, gdVars, pspVars, cbpVars, gdpVars, taVars, trVars>>

\* runCircuitBreaker: await testCircuitBreaker(payload)
SABreaker ==
  /\ SAIn("circuitBreaker")
  /\ \/ cbPc[1] = "idle" /\ CBStart(1, RunnerBreakerPayload)
     \/ TickConc
     \/ CBFailFast(1)
     \/ CBBeginCall(1)
     \/ \E throws \in BOOLEAN : CBAttempt(1, throws)
     \/ CBSettle(1)
     \/ CBReturn(1)
     \/ cbPc[1] = "done" /\ SARecord(cbRet[1] = <<>>)

\* runPartialSuccess: await testPartialSuccess(payload)
SAPartial ==
  /\ SAIn("partialSuccess")
  /\ \/ psPc = "idle" /\ PSStart(RunnerItems)
     \/ PSBeginItem
     \/ \E outcome \in PSOutcomes : PSAttempt(outcome)
     \/ PSReturn
     \/ psPc = "done" /\ SARecord(psRet = <<>>)

\* runHumanEscalation
SAEscalation ==
  /\ SAIn("humanEscalation")
  /\ SARecord(Raised(RunHumanEscalation))

\* runGracefulDegradation, under the LLM_MOCK of the process
SADegradation ==
  /\ SAIn("gracefulDegradation")
  /\ \E env \in GDEnvs : SARecord(Raised(TestGracefulDegradation(RunnerPrompt, env)))

\* the process ends
SAExit == cliRunner = "test-standalone.ts" /\ CLIExit

NextSA ==
  \/ \E arg \in SAArgs : SAStart(arg)
  \/ SABreaker
  \/ SAPartial
  \/ SAEscalation
  \/ SADegradation
  \/ SAExit

SpecSA == Init /\ [][NextSA]_vars

(***************************************************************************)
(* C32: a run of test-standalone.ts with pattern `all` (or none) ends with *)
(* all four patterns recorded as passed (Passed: 4/4, Failed: 0/4) and the *)
(* exit code 0, whatever the simulated upstream calls did; and no pattern  *)
(* is ever recorded as failed.                                             *)
(***************************************************************************)
C32_AllFourPass ==
  /\ cliRunner = "test-standalone.ts" =>
       \A k \in DOMAIN cliResults : cliResults[k].success
  /\ ( /\ cliRunner = "test-standalone.ts"
       /\ cliPc = "exited"
       /\ PatternOf(cliArg) = "all" )
     => /\ DOMAIN cliResults = {AllPatterns[k] : k \in 1..Len(AllPatterns)}
        /\ SuccessCount(cliResults) = Len(AllPatterns)
        /\ Cardinality(DOMAIN cliResults) - SuccessCount(cliResults) = 0
        /\ cliExit = 0

\* `all` ended after a run in which the breaker tripped and rejected a
\* call, and a batch item failed
C32_Witness ==
  /\ cliRunner = "test-standalone.ts"
  /\ cliPc = "exited"
  /\ PatternOf(cliArg) = "all"
  /\ SuccessCount(cliResults) = Len(AllPatterns)
  /\ \E k \in 1..Len(results[1]) : results[1][k].status = StatusFailFast
  /\ cbRet[1] # <<>> /\ ~cbRet[1][1].ok
  /\ psRet # <<>> /\ psRet[1].failedCount >= 1

(***************************************************************************)
(* TESTING.md, Circuit Breaker: Production Adaptations (state in Redis)    *)
(***************************************************************************)
TAService == "s1"

\* await redis.get<number>(key) || 0
TAGet(key) == IF key \in DOMAIN taStore THEN taStore[key] ELSE 0

\* "Track state per service": the two reads
TARead(p) ==
  /\ taPc[p] \in {"idle", "done"}
  /\ taLocal' = [taLocal EXCEPT ![p] =
       [consecutive |-> TAGet(StateKey(TAService)),
        openedUntil |-> TAGet(OpenKey(TAService))]]
  /\ taPc' = [taPc EXCEPT ![p] = "update"]
  /\ UNCHANGED <<taStore, taHist>>
  /\ UNCHANGED <<now, cbVars, psVars, heVars, hepVars, gdVars, pspVars, cbpVars, gdpVars, cliVars, trVars>>

\* "Update state": a failed call writes the value it read plus one and
\* goes on to the marker when the value it read is at the threshold; a
\* successful call deletes the counter
TAUpdate(p, failed) ==
  /\ taPc[p] = "update"
  /\ IF failed
       THEN /\ taLocal[p].consecutive < MaxFailures
            /\ taStore' = Assign(taStore, StateKey(TAService),
                                 taLocal[p].consecutive + 1)
            /\ taPc' = [taPc EXCEPT ![p] =
                 IF taLocal[p].consecutive >= maxConsecutive
                   THEN "open" ELSE "done"]
            /\ taHist' = [taHist EXCEPT !.streak = @ + 1]
       ELSE /\ taStore' = [k \in DOMAIN taStore \ {StateKey(TAService)} |->
                             taStore[k]]
            /\ taPc' = [taPc EXCEPT ![p] = "done"]
            /\ taHist' = [taHist EXCEPT !.streak = 0]
  /\ UNCHANGED taLocal
  /\ UNCHANGED <<now, cbVars, psVars, heVars, hepVars, gdVars, pspVars, cbpVars, gdpVars, cliVars, trVars>>

\* await redis.set(`${key}:open`, Date.now() + cooldown)
TAOpen(p) ==
  /\ taPc[p] = "open"
  /\ taStore' = Assign(taStore, OpenKey(TAService), now + DefaultCooldown)
  /\ taPc' = [taPc EXCEPT ![p] = "done"]
  /\ UNCHANGED <<taLocal, taHist>>
  /\ UNCHANGED <<now, cbVars, psVars, heVars, hepVars, gdVars, pspVars, cbpVars, gdpVars, cliVars, trVars>>

NextTA ==
  \E p \in BreakerCalls :
    \/ TARead(p)
    \/ \E failed \in BOOLEAN : TAUpdate(p, failed)
    \/ TAOpen(p)

SpecTA == Init /\ [][NextTA]_vars

(***************************************************************************)
(* C27 (as claimed): in the Redis-backed breaker, after k failed calls     *)
(* with no success in between, issued one after another or overlapping,    *)
(* the stored failure count equals k, and the open marker is set by the    *)
(* call that makes the count reach maxConsecutive: once that call is       *)
(* done, the marker is in the store.                                       *)
(***************************************************************************)
C27_StoredCountAndMarker ==
  /\ TAGet(StateKey(TAService)) = taHist.streak
  /\ ( /\ taHist.streak >= maxConsecutive
       /\ \A p \in BreakerCalls : taPc[p] \in {"idle", "done"} )
     => OpenKey(TAService) \in DOMAIN taStore

(***************************************************************************)
(* agents.test-all-patterns (the dashboard test runner)                    *)
(***************************************************************************)

\* payload.skipEscalation is optional: true, false, or a payload without it
TRPayloads == [skipEscalation : BOOLEAN] \cup [data : {"d"}]

\* !payload.skipEscalation
SkipEscalation(payload) ==
  "skipEscalation" \in DOMAIN payload /\ payload.skipEscalation

\* where the run goes after the try/catch of a pattern: the catch records
\* the failure and falls through to the next test
NextTest_StopOnRaise(pattern, raised) ==
  IF raised THEN "summary"
  ELSE CASE pattern = "circuitBreaker" -> "partialSuccess"
         [] pattern = "partialSuccess" -> "humanEscalation"
         [] pattern = "humanEscalation" -> "gracefulDegradation"
         [] OTHER -> "summary"
NextTest(pattern, raised) ==
  CASE pattern = "circuitBreaker" -> "partialSuccess"
    [] pattern = "partialSuccess" -> "humanEscalation"
    [] pattern = "humanEscalation" -> "gracefulDegradation"
    [] OTHER -> "summary"

\* r.success and results[k].skipped as the filters read them
IsSuccess(entry) == "success" \in DOMAIN entry /\ entry.success
IsSkipped(entry) == "skipped" \in DOMAIN entry /\ entry.skipped

\* the object the run returns (durationMs, results and timestamp left out)
TRSummary(res) ==
  LET successCount == Cardinality({k \in DOMAIN res : IsSuccess(res[k])})
      totalTests == Cardinality({k \in DOMAIN res : ~IsSkipped(res[k])})
  IN [ok |-> successCount = totalTests,
      totalTests |-> totalTests,
      successCount |-> successCount,
      failedCount |-> totalTests - successCount]

\* the task is triggered
TRStart(payload) ==
  /\ trPc \in {"idle", "done"}
  /\ trPayload' = payload
  /\ trPc' = AllPatterns[1]
  /\ trResults' = [k \in {} |-> 0]
  /\ trRet' = <<>>
  /\ trRan' = <<>>
  /\ UNCHANGED <<now, cbVars, psVars, heVars, hepVars, gdVars, pspVars, cbpVars, gdpVars, cliVars, taVars>>

\* one test: the awaited pattern returns or raises, and the try/catch
\* records it; the escalation test is skipped on request
TRTest(raises) ==
  /\ trPc \in {AllPatterns[k] : k \in 1..Len(AllPatterns)}
  /\ IF trPc = "humanEscalation" /\ SkipEscalation(trPayload)
       THEN /\ ~raises
            /\ trResults' = Assign(trResults, trPc, [skipped |-> TRUE])
            /\ trPc' = NextTest(trPc, FALSE)
            /\ UNCHANGED trRan
       ELSE /\ trResults' = Assign(trResults, trPc, [success |-> ~raises])
            /\ trPc' = NextTest(trPc, raises)
            /\ trRan' = Append(trRan, [pattern |-> trPc, raised |-> raises])
  /\ UNCHANGED <<trPayload, trRet>>
  /\ UNCHANGED <<now, cbVars, psVars, heVars, hepVars, gdVars, pspVars, cbpVars, gdpVars, cliVars, taVars>>

\* the counts and the return
TRReturn ==
  /\ trPc = "summary"
  /\ trRet' = <<TRSummary(trResults)>>
  /\ trPc' = "done"
  /\ UNCHANGED <<trPayload, trResults, trRan>>
  /\ UNCHANGED <<now, cbVars, psVars, heVars, hepVars, gdVars, pspVars, cbpVars, gdpVars, cliVars, taVars>>

NextTR ==
  \/ \E payload \in TRPayloads : TRStart(payload)
  \/ \E raises \in BOOLEAN : TRTest(raises)
  \/ TRReturn

SpecTR == Init /\ [][NextTR]_vars

(***************************************************************************)
(* C39: a pattern that raises does not keep the later patterns from        *)
(* running: a finished run awaited every pattern in order, the escalation  *)
(* test excepted when it is skipped. Its summary has successCount +        *)
(* failedCount = totalTests, counts the patterns that returned as          *)
(* successes and those that raised as failures, has ok true iff none       *)
(* raised, and counts a skipped escalation test in neither.                *)
(***************************************************************************)
C39_RunnerSummary ==
  trPc = "done" =>
    LET ret == trRet[1]
        awaited == IF SkipEscalation(trPayload)
                     THEN <<"circuitBreaker", "partialSuccess", "gracefulDegradation">>
                     ELSE AllPatterns
        raisedAt == {k \in 1..Len(trRan) : trRan[k].raised}
    IN /\ Len(trRan) = Len(awaited)
       /\ \A k \in 1..Len(trRan) : trRan[k].pattern = awaited[k]
       /\ ret.successCount + ret.failedCount = ret.totalTests
       /\ ret.totalTests = Len(awaited)
       /\ ret.failedCount = Cardinality(raisedAt)
       /\ ret.successCount = Len(trRan) - Cardinality(raisedAt)
       /\ ret.ok <=> raisedAt = {}
       /\ SkipEscalation(trPayload) =>
            /\ trResults["humanEscalation"] = [skipped |-> TRUE]
            /\ ret.totalTests = Len(AllPatterns) - 1

\* the first pattern raised, the escalation test was skipped, and the two
\* patterns after them ran and passed
C39_Witness ==
  /\ trPc = "done"
  /\ SkipEscalation(trPayload)
  /\ trRan = <<[pattern |-> "circuitBreaker", raised |-> TRUE],
               [pattern |-> "partialSuccess", raised |-> FALSE],
               [pattern |-> "gracefulDegradation", raised |-> FALSE]>>
  /\ trRet[1] = [ok |-> FALSE, totalTests |-> 3, successCount |-> 2, failedCount |-> 1]

====
